---- MODULE Spec2Model ----
(***************************************************************************)
(* Registry resolution and caching layer (registry/registryprovider.go).   *)
(*                                                                         *)
(* Strings are TLA+ strings, handled character by character with Len,      *)
(* SubSeq and \o.  A Registry instance is a record carrying the identity   *)
(* of the allocation (id), the name and short URL it reports and its       *)
(* variant.  The Metadata Source (common.RegistryService) is an interface  *)
(* whose implementation is outside this file: each call to it answers any  *)
(* persisted record or "not found".                                        *)
(***************************************************************************)
EXTENDS Integers, Sequences, FiniteSets, TLC

(* ----------------------------- bounds ---------------------------------- *)

\* Provider calls started in one behaviour of two concurrent goroutines.
MaxCalls == 2

\* Provider calls started in one behaviour of a single goroutine.
MaxSeqCalls == 4

\* GetDownloadURLs calls started in one behaviour.
MaxDownloads == 2

\* Provider calls after which goroutine 1 makes no further direct call
MaxDirectCalls == 2

\* Tags joined into one format string in the factory specification.
MaxTags == 3

(* --------------------------- strings ----------------------------------- *)

\* strings.HasPrefix(s, prefix)
HasPrefix(s, prefix) ==
    /\ Len(prefix) <= Len(s)
    /\ SubSeq(s, 1, Len(prefix)) = prefix

\* s without its first n characters
Drop(s, n) == SubSeq(s, n + 1, Len(s))

\* the only element of a one-element set; used to compute a value once
\* before it is used several times
The(S) == CHOOSE x \in S : TRUE

\* strings.Index(s, sub) + 1; 0 when sub does not occur in s
IndexOf(s, sub) ==
    The({IF hits = {} THEN 0 ELSE CHOOSE i \in hits : \A j \in hits : i <= j :
            hits \in {{i \in 1..(Len(s) - Len(sub) + 1) :
                          SubSeq(s, i, i + Len(sub) - 1) = sub}}})

\* positions of the character c in s
Positions(s, c) == {i \in 1..Len(s) : SubSeq(s, i, i) = c}

SetMax(S) == CHOOSE i \in S : \A j \in S : j <= i

\* util.TrimURLScheme: the URL without its http:// or https:// prefix
TrimURLScheme(URL) ==
    IF HasPrefix(URL, "https://") THEN Drop(URL, 8)
    ELSE IF HasPrefix(URL, "http://") THEN Drop(URL, 7)
    ELSE URL

\* strings.Split(s, ";") from position i on, with start the position where
\* the piece being read begins
RECURSIVE SplitSemi(_, _, _)
SplitSemi(s, start, i) ==
    IF i > Len(s) THEN <<SubSeq(s, start, Len(s))>>
    ELSE IF SubSeq(s, i, i) = ";"
    THEN <<SubSeq(s, start, i - 1)>> \o SplitSemi(s, i + 1, i + 1)
    ELSE SplitSemi(s, start, i + 1)

(* ------------------------- data model ---------------------------------- *)

\* common.GithubRegistryType and the format tags of package common
GithubRegistryType == "github"
UnversionedRegistry == "unversioned"
OneLevelRegistry == "one-level"
VersionedRegistry == "versioned"
CollectionRegistry == "collection"

\* the nil Registry and the nil *common.Registry
Nil == [id |-> 0, name |-> "", shortURL |-> "", kind |-> "nil"]
NilRecord == [Name |-> "", URL |-> "", Type |-> "", Format |-> ""]

\* the nil error
NoErr == ""

\* error of the Metadata Source when it has no such record
NotFound == "not found"

(* ---------------------------- factory ---------------------------------- *)

\* slip: only the first piece of the split is entered into the map
ParseRegistryFormatFirstOnly(rf) == {Head(SplitSemi(rf, 1, 1))}

\* ParseRegistryFormat: the set of keys of the returned map
ParseRegistryFormat(rf) ==
    LET split == SplitSemi(rf, 1, 1)
    IN  {split[i] : i \in 1..Len(split)}

\* NewGithubPackageRegistry(name, shortURL, nil): a fresh package registry
NewGithubPackageRegistry(name, shortURL, id) ==
    [reg |-> [id |-> id, name |-> name, shortURL |-> shortURL, kind |-> "package"],
     err |-> NoErr]

\* NewGithubTemplateRegistry(name, shortURL, nil): a fresh template registry
NewGithubTemplateRegistry(name, shortURL, id) ==
    [reg |-> [id |-> id, name |-> name, shortURL |-> shortURL, kind |-> "template"],
     err |-> NoErr]

\* registryProvider.GetGithubRegistry; id is the identity of the allocation
GetGithubRegistry(cr, id) ==
    IF cr.Type = GithubRegistryType
    THEN LET fMap == ParseRegistryFormat(cr.Format)
         IN  IF UnversionedRegistry \in fMap /\ OneLevelRegistry \in fMap
             THEN NewGithubPackageRegistry(cr.Name, cr.URL, id)
             ELSE IF VersionedRegistry \in fMap /\ CollectionRegistry \in fMap
             THEN NewGithubTemplateRegistry(cr.Name, cr.URL, id)
             ELSE [reg |-> Nil, err |-> "unknown registry format: " \o cr.Format]
    ELSE [reg |-> Nil, err |-> "unknown registry type: " \o cr.Type]

(* ------------------------- bounded inputs ------------------------------ *)

\* goroutines calling the Provider
Procs == {1, 2}

\* registry names: lookup names and names of persisted records
Names == {"r1", "r2"}

\* URLs of persisted records
RecordURLs == {"https://github.com/helm/charts",
               "github.com/kubernetes/application-dm-templates"}

\* URLs passed to GetRegistryByShortURL by direct callers
ProbeURLs == {"https://github.com/helm/charts", "http://github.com/helm/charts"}

RecordTypes == {GithubRegistryType, "gcs"}

RecordFormats == {"unversioned;one-level", "versioned"}

\* common.Registry records the Metadata Source may hold
Records ==
    {[Name |-> n, URL |-> u, Type |-> t, Format |-> f] :
        n \in Names, u \in RecordURLs, t \in RecordTypes, f \in RecordFormats}

\* what one call of rs.Get or rs.GetByURL may answer: (record, nil) or (nil, error)
SourceOutcomes ==
    {[cr |-> c, err |-> NoErr] : c \in Records} \cup {[cr |-> NilRecord, err |-> NotFound]}

(* ----------------------------- state ----------------------------------- *)

VARIABLES
    registries,  \* rp.registries: canonical name -> Registry instance
    nextId,      \* identity given to the next Registry allocated
    calls,       \* calls started so far
    fatal,       \* the runtime stopped the process on a concurrent map access
    pc,          \* position of each goroutine inside its Provider call
    op,          \* "ByName" or "ByShortURL"
    arg,         \* registryName or URL
    cr,          \* the record fetched from the Metadata Source
    r,           \* the Registry built by the Factory
    res,         \* the Registry the call returns
    err,         \* the error the call returns
    readers,     \* read holds on the RWMutex of the call's receiver
    writers,     \* write holds on the RWMutex of the call's receiver
    rsCalls,     \* calls made to the Metadata Source by the current call
    grpCalls,    \* calls made to the Factory by the current call
    wrote,       \* whether the current call assigned into rp.registries
    alone,       \* no other call was in progress at any time of the current call
    pred,        \* the call that returned last before the current one began alone
    last,        \* the call that returned last
    downloads,   \* GetDownloadURLs calls started so far
    dpc,         \* position inside GetDownloadURLs
    dt,          \* its argument t
    droute,      \* the branch GetDownloadURLs took
    consulted,   \* matchers evaluated by the current GetDownloadURLs
    dm,          \* submatches m
    dprobe,      \* arguments passed to rp.GetRegistryByShortURL
    dreg,        \* the Registry the Provider returned
    dtt,         \* the Type built by NewType
    durls,       \* URLs reported by the Registry
    dres,        \* returned []string
    derr,        \* returned error
    dcache,      \* rp.registries when GetDownloadURLs was entered
    dsteps,      \* the steps the current GetDownloadURLs has executed, in order
    dfail,       \* the step whose error the current GetDownloadURLs met first
    ftags,       \* the format tags joined into the record's Format
    fcr,         \* the record handed to GetGithubRegistry on its own
    fout         \* what GetGithubRegistry answered

provVars == <<registries, nextId, calls, fatal, pc, op, arg, cr, r, res, err, readers, writers,
              rsCalls, grpCalls, wrote, alone, pred, last>>
dlVars == <<downloads, dpc, dt, droute, consulted, dm, dprobe, dreg, dtt, durls, dres, derr,
            dcache, dsteps, dfail>>
facVars == <<ftags, fcr, fout>>
vars == <<provVars, dlVars, facVars>>

\* a finished call, as remembered in last and pred
NoCall == [op |-> "none", arg |-> "", reg |-> Nil, err |-> NoErr,
           rsCalls |-> 0, alone |-> FALSE]

EmptyCache == [n \in {} |-> Nil]

NoType == [Collection |-> "", Name |-> "", Version |-> "", ok |-> FALSE]

InitProvider ==
    /\ registries = EmptyCache
    /\ nextId = 1
    /\ calls = 0
    /\ fatal = FALSE
    /\ pc = [p \in Procs |-> "idle"]
    /\ op = [p \in Procs |-> "none"]
    /\ arg = [p \in Procs |-> ""]
    /\ cr = [p \in Procs |-> NilRecord]
    /\ r = [p \in Procs |-> Nil]
    /\ res = [p \in Procs |-> Nil]
    /\ err = [p \in Procs |-> NoErr]
    /\ readers = [p \in Procs |-> 0]
    /\ writers = [p \in Procs |-> 0]
    /\ rsCalls = [p \in Procs |-> 0]
    /\ grpCalls = [p \in Procs |-> 0]
    /\ wrote = [p \in Procs |-> FALSE]
    /\ alone = [p \in Procs |-> FALSE]
    /\ pred = [p \in Procs |-> NoCall]
    /\ last = NoCall

InitDownload ==
    /\ downloads = 0
    /\ dpc = "idle"
    /\ dt = ""
    /\ droute = "none"
    /\ consulted = {}
    /\ dm = <<>>
    /\ dprobe = <<>>
    /\ dreg = Nil
    /\ dtt = NoType
    /\ durls = <<>>
    /\ dres = <<>>
    /\ derr = NoErr
    /\ dcache = EmptyCache
    /\ dsteps = <<>>
    /\ dfail = ""

NotCalled == [reg |-> Nil, err |-> NoErr, done |-> FALSE]

InitFactory ==
    /\ ftags = <<>>
    /\ fcr = NilRecord
    /\ fout = NotCalled

Init == InitProvider /\ InitDownload /\ InitFactory

(* --------------------------- the cache --------------------------------- *)

\* slip: ok is not tested, the map's answer is returned as it is
LookupByNameOkIgnored(cache, registryName) ==
    [ok |-> TRUE,
     reg |-> IF registryName \in DOMAIN cache THEN cache[registryName] ELSE Nil]

\* slip: the lookup never finds the entry
LookupByNameNeverHits(cache, registryName) == [ok |-> FALSE, reg |-> Nil]

\* result, ok := rp.registries[registryName]
LookupByName(cache, registryName) ==
    IF registryName \in DOMAIN cache
    THEN [ok |-> TRUE, reg |-> cache[registryName]]
    ELSE [ok |-> FALSE, reg |-> Nil]

\* slip: the short URL of the cached entry keeps its scheme
findRegistryByShortURLRawEntry(cache, URL) ==
    LET trimmed == TrimURLScheme(URL)
    IN  {cache[n] : n \in {k \in DOMAIN cache : HasPrefix(trimmed, cache[k].shortURL)}}

\* slip: the supplied URL keeps its scheme
findRegistryByShortURLRawProbe(cache, URL) ==
    {cache[n] : n \in {k \in DOMAIN cache :
                          HasPrefix(URL, TrimURLScheme(cache[k].shortURL))}}

\* findRegistryByShortURL: the entries the range loop may return, in whatever
\* order the map is iterated; the empty set when it returns nil
findRegistryByShortURL(cache, URL) ==
    LET trimmed == TrimURLScheme(URL)
    IN  {cache[n] : n \in {k \in DOMAIN cache :
                              HasPrefix(trimmed, TrimURLScheme(cache[k].shortURL))}}

\* slip: the entry is stored under the Registry's short URL
CacheInsertUnderURL(cache, reg) ==
    [n \in (DOMAIN cache) \cup {reg.shortURL} |-> IF n = reg.shortURL THEN reg ELSE cache[n]]

\* rp.registries[r.GetRegistryName()] = r
CacheInsert(cache, reg) ==
    [n \in (DOMAIN cache) \cup {reg.name} |-> IF n = reg.name THEN reg ELSE cache[n]]

\* where a call goes after the Metadata Source answered (err != nil: return nil, err)
AfterSource(out) == IF out.err # NoErr THEN "ret" ELSE "grp"

\* slip: the Factory's error is not checked
AfterFactoryUnchecked(out) == "insert"

\* where a call goes after the Factory answered (err != nil: return nil, err)
AfterFactory(out) == IF out.err # NoErr THEN "ret" ELSE "insert"

(* ----------------------- Provider operations --------------------------- *)

\* slip: the read hold is not taken
RLockSkipped(holds) == holds

\* rp.RLock(): one more read hold
RLock(holds) == holds + 1

\* slip: the read hold is kept on return
RUnlockSkipped(holds) == holds

\* the deferred rp.RUnlock(): one read hold less
RUnlock(holds) == holds - 1

\* slip: entering waits until no other call holds its lock, as the write side
\* of a mutex shared by all calls would
RLockWaitsForAll(p) == \E q \in Procs \ {p} : readers[q] + writers[q] > 0

\* whether rp.RLock() of goroutine p has to wait: a read lock waits only for a
\* holder of the write side, and the mutex is the one of the receiver, which
\* is the call's own copy of the struct
RLockWaits(p) == writers[p] > 0

\* rp.RLock(); defer rp.RUnlock(): the receiver is a copy of the struct, so
\* the lock taken is the call's own copy of the RWMutex
Begin(p, o, a) ==
    /\ ~fatal
    /\ pc[p] = "idle"
    /\ ~RLockWaits(p)
    /\ calls' = calls + 1
    /\ pc' = [pc EXCEPT ![p] = "lookup"]
    /\ op' = [op EXCEPT ![p] = o]
    /\ arg' = [arg EXCEPT ![p] = a]
    /\ readers' = [readers EXCEPT ![p] = RLock(@)]
    /\ LET quiet == \A q \in Procs \ {p} : pc[q] = "idle"
       IN  /\ alone' = [q \in Procs |-> IF q = p THEN quiet ELSE FALSE]
           /\ pred' = [pred EXCEPT ![p] = IF quiet THEN last ELSE NoCall]
    /\ UNCHANGED <<registries, nextId, fatal, cr, r, res, err, writers, rsCalls, grpCalls,
                   wrote, last>>

\* GetRegistryByName called by goroutine p
CallByName(p) ==
    /\ calls < MaxCalls
    /\ \E name \in Names : Begin(p, "ByName", name)
    /\ UNCHANGED <<dlVars, facVars>>

\* GetRegistryByShortURL called by goroutine p
CallByShortURL(p) ==
    /\ calls < MaxCalls
    /\ \E URL \in ProbeURLs : Begin(p, "ByShortURL", URL)
    /\ UNCHANGED <<dlVars, facVars>>

\* GetRegistryByName: the map lookup and the branch on ok
LookupName(p) ==
    /\ ~fatal
    /\ pc[p] = "lookup"
    /\ op[p] = "ByName"
    /\ LET found == LookupByName(registries, arg[p])
       IN  /\ res' = [res EXCEPT ![p] = found.reg]
           /\ pc' = [pc EXCEPT ![p] = IF found.ok THEN "ret" ELSE "rs"]
    /\ UNCHANGED <<registries, nextId, calls, fatal, op, arg, cr, r, err, readers, writers,
                   rsCalls, grpCalls, wrote, alone, pred, last>>
    /\ UNCHANGED <<dlVars, facVars>>

\* GetRegistryByShortURL: findRegistryByShortURL and the branch on result == nil
LookupURL(p) ==
    /\ ~fatal
    /\ pc[p] = "lookup"
    /\ op[p] = "ByShortURL"
    /\ LET found == findRegistryByShortURL(registries, arg[p])
       IN  IF found = {}
           THEN /\ pc' = [pc EXCEPT ![p] = "rs"]
                /\ res' = [res EXCEPT ![p] = Nil]
           ELSE /\ pc' = [pc EXCEPT ![p] = "ret"]
                /\ \E reg \in found : res' = [res EXCEPT ![p] = reg]
    /\ UNCHANGED <<registries, nextId, calls, fatal, op, arg, cr, r, err, readers, writers,
                   rsCalls, grpCalls, wrote, alone, pred, last>>
    /\ UNCHANGED <<dlVars, facVars>>

\* cr, err := rp.rs.Get(registryName) or rp.rs.GetByURL(URL)
RsCall(p) ==
    /\ ~fatal
    /\ pc[p] = "rs"
    /\ \E out \in SourceOutcomes :
          /\ cr' = [cr EXCEPT ![p] = out.cr]
          /\ err' = [err EXCEPT ![p] = out.err]
          /\ pc' = [pc EXCEPT ![p] = AfterSource(out)]
    /\ rsCalls' = [rsCalls EXCEPT ![p] = @ + 1]
    /\ UNCHANGED <<registries, nextId, calls, fatal, op, arg, r, res, readers, writers,
                   grpCalls, wrote, alone, pred, last>>
    /\ UNCHANGED <<dlVars, facVars>>

\* r, err := rp.grp.GetGithubRegistry(*cr)
GrpCall(p) ==
    /\ ~fatal
    /\ pc[p] = "grp"
    /\ LET out == GetGithubRegistry(cr[p], nextId)
       IN  /\ r' = [r EXCEPT ![p] = out.reg]
           /\ err' = [err EXCEPT ![p] = out.err]
           /\ pc' = [pc EXCEPT ![p] = AfterFactory(out)]
           /\ nextId' = IF out.err = NoErr THEN nextId + 1 ELSE nextId
    /\ grpCalls' = [grpCalls EXCEPT ![p] = @ + 1]
    /\ UNCHANGED <<registries, calls, fatal, op, arg, cr, res, readers, writers,
                   rsCalls, wrote, alone, pred, last>>
    /\ UNCHANGED <<dlVars, facVars>>

\* rp.registries[r.GetRegistryName()] = r; result = r
Insert(p) ==
    /\ ~fatal
    /\ pc[p] = "insert"
    /\ registries' = CacheInsert(registries, r[p])
    /\ res' = [res EXCEPT ![p] = r[p]]
    /\ wrote' = [wrote EXCEPT ![p] = TRUE]
    /\ pc' = [pc EXCEPT ![p] = "ret"]
    /\ UNCHANGED <<nextId, calls, fatal, op, arg, cr, r, err, readers, writers,
                   rsCalls, grpCalls, alone, pred, last>>
    /\ UNCHANGED <<dlVars, facVars>>

\* the call as it is remembered once it has returned
Finished(p) ==
    [op |-> op[p], arg |-> arg[p], reg |-> res[p], err |-> err[p],
     rsCalls |-> rsCalls[p], alone |-> alone[p]]

\* return result, nil or return nil, err; the deferred rp.RUnlock()
Return(p) ==
    /\ ~fatal
    /\ pc[p] = "ret"
    /\ last' = Finished(p)
    /\ pc' = [pc EXCEPT ![p] = "idle"]
    /\ op' = [op EXCEPT ![p] = "none"]
    /\ arg' = [arg EXCEPT ![p] = ""]
    /\ cr' = [cr EXCEPT ![p] = NilRecord]
    /\ r' = [r EXCEPT ![p] = Nil]
    /\ res' = [res EXCEPT ![p] = Nil]
    /\ err' = [err EXCEPT ![p] = NoErr]
    /\ readers' = [readers EXCEPT ![p] = RUnlock(@)]
    /\ rsCalls' = [rsCalls EXCEPT ![p] = 0]
    /\ grpCalls' = [grpCalls EXCEPT ![p] = 0]
    /\ wrote' = [wrote EXCEPT ![p] = FALSE]
    /\ alone' = [alone EXCEPT ![p] = FALSE]
    /\ pred' = [pred EXCEPT ![p] = NoCall]
    /\ UNCHANGED <<registries, nextId, calls, fatal, writers>>
    /\ UNCHANGED <<dlVars, facVars>>

\* two goroutines at the map at once, one of them assigning: the runtime may
\* detect it and stop the process ("fatal error: concurrent map writes")
MapRaceFatal ==
    /\ ~fatal
    /\ \E p \in Procs, q \in Procs :
          /\ p # q
          /\ pc[p] = "insert"
          /\ pc[q] \in {"insert", "lookup"}
    /\ fatal' = TRUE
    /\ UNCHANGED <<registries, nextId, calls, pc, op, arg, cr, r, res, err, readers, writers,
                   rsCalls, grpCalls, wrote, alone, pred, last>>
    /\ UNCHANGED <<dlVars, facVars>>

Next ==
    \/ \E p \in Procs : CallByName(p)
    \/ \E p \in Procs : CallByShortURL(p)
    \/ \E p \in Procs : LookupName(p)
    \/ \E p \in Procs : LookupURL(p)
    \/ \E p \in Procs : RsCall(p)
    \/ \E p \in Procs : GrpCall(p)
    \/ \E p \in Procs : Insert(p)
    \/ \E p \in Procs : Return(p)
    \/ MapRaceFatal

\* any number of goroutines calling the Provider concurrently
Spec == Init /\ [][Next]_vars

(* ------------------- a single goroutine calling ------------------------ *)

SeqCallByName ==
    /\ calls < MaxSeqCalls
    /\ \E name \in Names : Begin(1, "ByName", name)
    /\ UNCHANGED <<dlVars, facVars>>

SeqCallByShortURL ==
    /\ calls < MaxSeqCalls
    /\ \E URL \in ProbeURLs : Begin(1, "ByShortURL", URL)
    /\ UNCHANGED <<dlVars, facVars>>

NextSeq ==
    \/ SeqCallByName
    \/ SeqCallByShortURL
    \/ LookupName(1)
    \/ LookupURL(1)
    \/ RsCall(1)
    \/ GrpCall(1)
    \/ Insert(1)
    \/ Return(1)

\* one goroutine making one Provider call after the other
SpecSeq == Init /\ [][NextSeq]_vars

(* ------------------- the Factory on its own ---------------------------- *)

\* format tags a record may carry: the four known ones, an unknown one
FormatTags == {UnversionedRegistry, OneLevelRegistry, VersionedRegistry,
               CollectionRegistry, "bogus"}

\* sequences of 1 to MaxTags tags
TagSeqs == UNION {[1..n -> FormatTags] : n \in 1..MaxTags}

\* the tags joined with ";" into a common.RegistryFormat
RECURSIVE JoinSemi(_)
JoinSemi(tags) ==
    IF Len(tags) = 0 THEN ""
    ELSE IF Len(tags) = 1 THEN tags[1]
    ELSE tags[1] \o ";" \o JoinSemi(Tail(tags))

\* a caller hands GetGithubRegistry a record of any type and format
InitFactoryCall ==
    /\ InitProvider
    /\ InitDownload
    /\ ftags \in TagSeqs
    /\ \E n \in Names, u \in RecordURLs, t \in RecordTypes :
          fcr = [Name |-> n, URL |-> u, Type |-> t, Format |-> JoinSemi(ftags)]
    /\ fout = NotCalled

\* rp.GetGithubRegistry(cr)
FactoryCall ==
    /\ ~fout.done
    /\ LET out == GetGithubRegistry(fcr, nextId)
       IN  fout' = [reg |-> out.reg, err |-> out.err, done |-> TRUE]
    /\ UNCHANGED <<ftags, fcr>>
    /\ UNCHANGED <<provVars, dlVars>>

NextFactory == FactoryCall

\* GetGithubRegistry applied to one record
SpecFactory == InitFactoryCall /\ [][NextFactory]_vars

\* the set of tags of the record's format
TagSet == {ftags[i] : i \in 1..Len(ftags)}

\* C7: for a Github record, {unversioned, one-level} gives a package registry,
\* {versioned, collection} a template registry, and every other tag set fails
\* with "unknown registry format" carrying the format string; a record of any
\* other type fails with "unknown registry type" whatever the format.
C7_FactoryDispatch ==
    fout.done =>
        IF fcr.Type = "github"
        THEN IF TagSet = {"unversioned", "one-level"}
             THEN fout.err = NoErr /\ fout.reg.kind = "package"
             ELSE IF TagSet = {"versioned", "collection"}
             THEN fout.err = NoErr /\ fout.reg.kind = "template"
             ELSE /\ fout.reg = Nil
                  /\ fout.err = "unknown registry format: " \o fcr.Format
        ELSE /\ fout.reg = Nil
             /\ fout.err = "unknown registry type: " \o fcr.Type

(* ------------------- strings: characters, runes, bytes ------------------ *)

(* A Go string is a sequence of bytes that the code reads as UTF-8; a string
   here is a sequence of UTF-16 code units. The definitions below give, for
   each place of a string, the rune that starts there and the bytes it has in
   the Go string. The tables hold every code unit a string can be written
   with but the one of the code 0: all of 1 to 255 but the grave accent (96),
   and above them those whose lower eight bits are 128 or more. *)

\* the characters of the codes 1 to 95 in the order of their codes
CharsLow == "\t\n\f\r !\"#$%&'()*+,-./0123456789:;<=>?@ABCDEFGHIJKLMNOPQRSTUVWXYZ[\\]^_"

\* the characters of the codes 97 to 255
CharsHigh ==
    "abcdefghijklmnopqrstuvwxyz{|}~ ¡¢£¤¥¦§¨©ª«¬­®¯°±²³´µ¶·¸¹º»¼½¾¿ÀÁÂÃÄÅÆÇÈÉÊËÌÍÎÏÐÑÒÓÔÕÖ×ØÙÚÛÜÝÞßàáâãäåæçèéêëìíîïðñòóôõö÷øùúûüýþÿ"

\* page by page, the characters of the codes 256 * page + 128 to
\* 256 * page + 255: the pages 1 to 215 and 224 to 255
Pages ==
  <<
     "ƀƁƂƃƄƅƆƇƈƉƊƋƌƍƎƏƐƑƒƓƔƕƖƗƘƙƚƛƜƝƞƟƠơƢƣƤƥƦƧƨƩƪƫƬƭƮƯưƱƲƳƴƵƶƷƸƹƺƻƼƽƾƿǀǁǂǃǄǅǆǇǈǉǊǋǌǍǎǏǐǑǒǓǔǕǖǗǘǙǚǛǜǝǞǟǠǡǢǣǤǥǦǧǨǩǪǫǬǭǮǯǰǱǲǳǴǵǶǷǸǹǺǻǼǽǾǿ",
     "ʀʁʂʃʄʅʆʇʈʉʊʋʌʍʎʏʐʑʒʓʔʕʖʗʘʙʚʛʜʝʞʟʠʡʢʣʤʥʦʧʨʩʪʫʬʭʮʯʰʱʲʳʴʵʶʷʸʹʺʻʼʽʾʿˀˁ˂˃˄˅ˆˇˈˉˊˋˌˍˎˏːˑ˒˓˔˕˖˗˘˙˚˛˜˝˞˟ˠˡˢˣˤ˥˦˧˨˩˪˫ˬ˭ˮ˯˰˱˲˳˴˵˶˷˸˹˺˻˼˽˾˿",
     "΀΁΂΃΄΅Ά·ΈΉΊ΋Ό΍ΎΏΐΑΒΓΔΕΖΗΘΙΚΛΜΝΞΟΠΡ΢ΣΤΥΦΧΨΩΪΫάέήίΰαβγδεζηθικλμνξοπρςστυφχψωϊϋόύώϏϐϑϒϓϔϕϖϗϘϙϚϛϜϝϞϟϠϡϢϣϤϥϦϧϨϩϪϫϬϭϮϯϰϱϲϳϴϵ϶ϷϸϹϺϻϼϽϾϿ",
     "Ҁҁ҂҃҄҅҆҇҈҉ҊҋҌҍҎҏҐґҒғҔҕҖҗҘҙҚқҜҝҞҟҠҡҢңҤҥҦҧҨҩҪҫҬҭҮүҰұҲҳҴҵҶҷҸҹҺһҼҽҾҿӀӁӂӃӄӅӆӇӈӉӊӋӌӍӎӏӐӑӒӓӔӕӖӗӘәӚӛӜӝӞӟӠӡӢӣӤӥӦӧӨөӪӫӬӭӮӯӰӱӲӳӴӵӶӷӸӹӺӻӼӽӾӿ",
     "րցւփքօֆևֈ։֊֋֌֍֎֏֐ְֱֲֳִֵֶַָֹֺֻּֽ֑֖֛֢֣֤֥֦֧֪֚֭֮֒֓֔֕֗֘֙֜֝֞֟֠֡֨֩֫֬֯־ֿ׀ׁׂ׃ׅׄ׆ׇ׈׉׊׋׌׍׎׏אבגדהוזחטיךכלםמןנסעףפץצקרשת׫׬׭׮ׯװױײ׳״׵׶׷׸׹׺׻׼׽׾׿",
     "ڀځڂڃڄڅچڇڈډڊڋڌڍڎڏڐڑڒړڔڕږڗژڙښڛڜڝڞڟڠڡڢڣڤڥڦڧڨکڪګڬڭڮگڰڱڲڳڴڵڶڷڸڹںڻڼڽھڿۀہۂۃۄۅۆۇۈۉۊۋیۍێۏېۑےۓ۔ەۖۗۘۙۚۛۜ۝۞ۣ۟۠ۡۢۤۥۦۧۨ۩۪ۭ۫۬ۮۯ۰۱۲۳۴۵۶۷۸۹ۺۻۼ۽۾ۿ",
     "ހށނރބޅކއވމފދތލގޏސޑޒޓޔޕޖޗޘޙޚޛޜޝޞޟޠޡޢޣޤޥަާިީުޫެޭޮޯްޱ޲޳޴޵޶޷޸޹޺޻޼޽޾޿߀߁߂߃߄߅߆߇߈߉ߊߋߌߍߎߏߐߑߒߓߔߕߖߗߘߙߚߛߜߝߞߟߠߡߢߣߤߥߦߧߨߩߪ߲߫߬߭߮߯߰߱߳ߴߵ߶߷߸߹ߺ߻߼߽߾߿",
     "ࢀࢁࢂࢃࢄࢅࢆࢇ࢈ࢉࢊࢋࢌࢍࢎ࢏࢐࢑࢒࢓࢔࢕࢖࢙࢚࢛ࢗ࢘࢜࢝࢞࢟ࢠࢡࢢࢣࢤࢥࢦࢧࢨࢩࢪࢫࢬࢭࢮࢯࢰࢱࢲࢳࢴࢵࢶࢷࢸࢹࢺࢻࢼࢽࢾࢿࣀࣁࣂࣃࣄࣅࣆࣇࣈࣉ࣏࣐࣑࣒࣓࣊࣋࣌࣍࣎ࣔࣕࣖࣗࣘࣙࣚࣛࣜࣝࣞࣟ࣠࣡࣢ࣰࣱࣲࣣࣦࣩ࣭࣮࣯ࣶࣹࣺࣤࣥࣧࣨ࣪࣫࣬ࣳࣴࣵࣷࣸࣻࣼࣽࣾࣿ",
     "ঀঁংঃ঄অআইঈউঊঋঌ঍঎এঐ঑঒ওঔকখগঘঙচছজঝঞটঠডঢণতথদধন঩পফবভমযর঱ল঳঴঵শষসহ঺঻়ঽািীুূৃৄ৅৆েৈ৉৊োৌ্ৎ৏৐৑৒৓৔৕৖ৗ৘৙৚৛ড়ঢ়৞য়ৠৡৢৣ৤৥০১২৩৪৫৬৭৮৯ৰৱ৲৳৴৵৶৷৸৹৺৻ৼ৽৾৿",
     "઀ઁંઃ઄અઆઇઈઉઊઋઌઍ઎એઐઑ઒ઓઔકખગઘઙચછજઝઞટઠડઢણતથદધન઩પફબભમયર઱લળ઴વશષસહ઺઻઼ઽાિીુૂૃૄૅ૆ેૈૉ૊ોૌ્૎૏ૐ૑૒૓૔૕૖૗૘૙૚૛૜૝૞૟ૠૡૢૣ૤૥૦૧૨૩૪૫૬૭૮૯૰૱૲૳૴૵૶૷૸ૹૺૻૼ૽૾૿",
     "஀஁ஂஃ஄அஆஇஈஉஊ஋஌஍எஏஐ஑ஒஓஔக஖஗஘ஙச஛ஜ஝ஞட஠஡஢ணத஥஦஧நனப஫஬஭மயரறலளழவஶஷஸஹ஺஻஼஽ாிீுூ௃௄௅ெேை௉ொோௌ்௎௏ௐ௑௒௓௔௕௖ௗ௘௙௚௛௜௝௞௟௠௡௢௣௤௥௦௧௨௩௪௫௬௭௮௯௰௱௲௳௴௵௶௷௸௹௺௻௼௽௾௿",
     "ಀಁಂಃ಄ಅಆಇಈಉಊಋಌ಍ಎಏಐ಑ಒಓಔಕಖಗಘಙಚಛಜಝಞಟಠಡಢಣತಥದಧನ಩ಪಫಬಭಮಯರಱಲಳ಴ವಶಷಸಹ಺಻಼ಽಾಿೀುೂೃೄ೅ೆೇೈ೉ೊೋೌ್೎೏೐೑೒೓೔ೕೖ೗೘೙೚೛೜ೝೞ೟ೠೡೢೣ೤೥೦೧೨೩೪೫೬೭೮೯೰ೱೲೳ೴೵೶೷೸೹೺೻೼೽೾೿",
     "඀ඁංඃ඄අආඇඈඉඊඋඌඍඎඏඐඑඒඓඔඕඖ඗඘඙කඛගඝඞඟචඡජඣඤඥඦටඨඩඪණඬතථදධන඲ඳපඵබභමඹයර඼ල඾඿වශෂසහළෆ෇෈෉්෋෌෍෎ාැෑිීු෕ූ෗ෘෙේෛොෝෞෟ෠෡෢෣෤෥෦෧෨෩෪෫෬෭෮෯෰෱ෲෳ෴෵෶෷෸෹෺෻෼෽෾෿",
     "຀ກຂ຃ຄ຅ຆງຈຉຊ຋ຌຍຎຏຐຑຒຓດຕຖທຘນບປຜຝພຟຠມຢຣ຤ລ຦ວຨຩສຫຬອຮຯະັາຳິີຶື຺ຸູົຼຽ຾຿ເແໂໃໄ໅ໆ໇່້໊໋໌ໍ໎໏໐໑໒໓໔໕໖໗໘໙໚໛ໜໝໞໟ໠໡໢໣໤໥໦໧໨໩໪໫໬໭໮໯໰໱໲໳໴໵໶໷໸໹໺໻໼໽໾໿",
     "྄ཱྀྀྂྃ྅྆྇ྈྉྊྋྌྍྎྏྐྑྒྒྷྔྕྖྗ྘ྙྚྛྜྜྷྞྟྠྡྡྷྣྤྥྦྦྷྨྩྪྫྫྷྭྮྯྰྱྲླྴྵྶྷྸྐྵྺྻྼ྽྾྿࿀࿁࿂࿃࿄࿅࿆࿇࿈࿉࿊࿋࿌࿍࿎࿏࿐࿑࿒࿓࿔࿕࿖࿗࿘࿙࿚࿛࿜࿝࿞࿟࿠࿡࿢࿣࿤࿥࿦࿧࿨࿩࿪࿫࿬࿭࿮࿯࿰࿱࿲࿳࿴࿵࿶࿷࿸࿹࿺࿻࿼࿽࿾࿿",
     "ႀႁႂႃႄႅႆႇႈႉႊႋႌႍႎႏ႐႑႒႓႔႕႖႗႘႙ႚႛႜႝ႞႟ႠႡႢႣႤႥႦႧႨႩႪႫႬႭႮႯႰႱႲႳႴႵႶႷႸႹႺႻႼႽႾႿჀჁჂჃჄჅ჆Ⴧ჈჉჊჋჌Ⴭ჎჏აბგდევზთიკლმნოპჟრსტუფქღყშჩცძწჭხჯჰჱჲჳჴჵჶჷჸჹჺ჻ჼჽჾჿ",
     "ᆀᆁᆂᆃᆄᆅᆆᆇᆈᆉᆊᆋᆌᆍᆎᆏᆐᆑᆒᆓᆔᆕᆖᆗᆘᆙᆚᆛᆜᆝᆞᆟᆠᆡᆢᆣᆤᆥᆦᆧᆨᆩᆪᆫᆬᆭᆮᆯᆰᆱᆲᆳᆴᆵᆶᆷᆸᆹᆺᆻᆼᆽᆾᆿᇀᇁᇂᇃᇄᇅᇆᇇᇈᇉᇊᇋᇌᇍᇎᇏᇐᇑᇒᇓᇔᇕᇖᇗᇘᇙᇚᇛᇜᇝᇞᇟᇠᇡᇢᇣᇤᇥᇦᇧᇨᇩᇪᇫᇬᇭᇮᇯᇰᇱᇲᇳᇴᇵᇶᇷᇸᇹᇺᇻᇼᇽᇾᇿ",
     "ኀኁኂኃኄኅኆኇኈ኉ኊኋኌኍ኎኏ነኑኒናኔንኖኗኘኙኚኛኜኝኞኟአኡኢኣኤእኦኧከኩኪካኬክኮኯኰ኱ኲኳኴኵ኶኷ኸኹኺኻኼኽኾ኿ዀ዁ዂዃዄዅ዆዇ወዉዊዋዌውዎዏዐዑዒዓዔዕዖ዗ዘዙዚዛዜዝዞዟዠዡዢዣዤዥዦዧየዩዪያዬይዮዯደዱዲዳዴድዶዷዸዹዺዻዼዽዾዿ",
     "ᎀᎁᎂᎃᎄᎅᎆᎇᎈᎉᎊᎋᎌᎍᎎᎏ᎐᎑᎒᎓᎔᎕᎖᎗᎘᎙᎚᎛᎜᎝᎞᎟ᎠᎡᎢᎣᎤᎥᎦᎧᎨᎩᎪᎫᎬᎭᎮᎯᎰᎱᎲᎳᎴᎵᎶᎷᎸᎹᎺᎻᎼᎽᎾᎿᏀᏁᏂᏃᏄᏅᏆᏇᏈᏉᏊᏋᏌᏍᏎᏏᏐᏑᏒᏓᏔᏕᏖᏗᏘᏙᏚᏛᏜᏝᏞᏟᏠᏡᏢᏣᏤᏥᏦᏧᏨᏩᏪᏫᏬᏭᏮᏯᏰᏱᏲᏳᏴᏵ᏶᏷ᏸᏹᏺᏻᏼᏽ᏾᏿",
     "ᒀᒁᒂᒃᒄᒅᒆᒇᒈᒉᒊᒋᒌᒍᒎᒏᒐᒑᒒᒓᒔᒕᒖᒗᒘᒙᒚᒛᒜᒝᒞᒟᒠᒡᒢᒣᒤᒥᒦᒧᒨᒩᒪᒫᒬᒭᒮᒯᒰᒱᒲᒳᒴᒵᒶᒷᒸᒹᒺᒻᒼᒽᒾᒿᓀᓁᓂᓃᓄᓅᓆᓇᓈᓉᓊᓋᓌᓍᓎᓏᓐᓑᓒᓓᓔᓕᓖᓗᓘᓙᓚᓛᓜᓝᓞᓟᓠᓡᓢᓣᓤᓥᓦᓧᓨᓩᓪᓫᓬᓭᓮᓯᓰᓱᓲᓳᓴᓵᓶᓷᓸᓹᓺᓻᓼᓽᓾᓿ",
     "ᖀᖁᖂᖃᖄᖅᖆᖇᖈᖉᖊᖋᖌᖍᖎᖏᖐᖑᖒᖓᖔᖕᖖᖗᖘᖙᖚᖛᖜᖝᖞᖟᖠᖡᖢᖣᖤᖥᖦᖧᖨᖩᖪᖫᖬᖭᖮᖯᖰᖱᖲᖳᖴᖵᖶᖷᖸᖹᖺᖻᖼᖽᖾᖿᗀᗁᗂᗃᗄᗅᗆᗇᗈᗉᗊᗋᗌᗍᗎᗏᗐᗑᗒᗓᗔᗕᗖᗗᗘᗙᗚᗛᗜᗝᗞᗟᗠᗡᗢᗣᗤᗥᗦᗧᗨᗩᗪᗫᗬᗭᗮᗯᗰᗱᗲᗳᗴᗵᗶᗷᗸᗹᗺᗻᗼᗽᗾᗿ",
     " ᚁᚂᚃᚄᚅᚆᚇᚈᚉᚊᚋᚌᚍᚎᚏᚐᚑᚒᚓᚔᚕᚖᚗᚘᚙᚚ᚛᚜᚝᚞᚟ᚠᚡᚢᚣᚤᚥᚦᚧᚨᚩᚪᚫᚬᚭᚮᚯᚰᚱᚲᚳᚴᚵᚶᚷᚸᚹᚺᚻᚼᚽᚾᚿᛀᛁᛂᛃᛄᛅᛆᛇᛈᛉᛊᛋᛌᛍᛎᛏᛐᛑᛒᛓᛔᛕᛖᛗᛘᛙᛚᛛᛜᛝᛞᛟᛠᛡᛢᛣᛤᛥᛦᛧᛨᛩᛪ᛫᛬᛭ᛮᛯᛰᛱᛲᛳᛴᛵᛶᛷᛸ᛹᛺᛻᛼᛽᛾᛿",
     "កខគឃងចឆជឈញដឋឌឍណតថទធនបផពភមយរលវឝឞសហឡអឣឤឥឦឧឨឩឪឫឬឭឮឯឰឱឲឳ឴឵ាិីឹឺុូួើឿៀេែៃោៅំះៈ៉៊់៌៍៎៏័៑្៓។៕៖ៗ៘៙៚៛ៜ៝៞៟០១២៣៤៥៦៧៨៩៪៫៬៭៮៯៰៱៲៳៴៵៶៷៸៹៺៻៼៽៾៿",
     "ᢀᢁᢂᢃᢄᢅᢆᢇᢈᢉᢊᢋᢌᢍᢎᢏᢐᢑᢒᢓᢔᢕᢖᢗᢘᢙᢚᢛᢜᢝᢞᢟᢠᢡᢢᢣᢤᢥᢦᢧᢨᢩᢪ᢫᢬᢭᢮᢯ᢰᢱᢲᢳᢴᢵᢶᢷᢸᢹᢺᢻᢼᢽᢾᢿᣀᣁᣂᣃᣄᣅᣆᣇᣈᣉᣊᣋᣌᣍᣎᣏᣐᣑᣒᣓᣔᣕᣖᣗᣘᣙᣚᣛᣜᣝᣞᣟᣠᣡᣢᣣᣤᣥᣦᣧᣨᣩᣪᣫᣬᣭᣮᣯᣰᣱᣲᣳᣴᣵ᣶᣷᣸᣹᣺᣻᣼᣽᣾᣿",
     "ᦀᦁᦂᦃᦄᦅᦆᦇᦈᦉᦊᦋᦌᦍᦎᦏᦐᦑᦒᦓᦔᦕᦖᦗᦘᦙᦚᦛᦜᦝᦞᦟᦠᦡᦢᦣᦤᦥᦦᦧᦨᦩᦪᦫ᦬᦭᦮᦯ᦰᦱᦲᦳᦴᦵᦶᦷᦸᦹᦺᦻᦼᦽᦾᦿᧀᧁᧂᧃᧄᧅᧆᧇᧈᧉ᧊᧋᧌᧍᧎᧏᧐᧑᧒᧓᧔᧕᧖᧗᧘᧙᧚᧛᧜᧝᧞᧟᧠᧡᧢᧣᧤᧥᧦᧧᧨᧩᧪᧫᧬᧭᧮᧯᧰᧱᧲᧳᧴᧵᧶᧷᧸᧹᧺᧻᧼᧽᧾᧿",
     "᪀᪁᪂᪃᪄᪅᪆᪇᪈᪉᪊᪋᪌᪍᪎᪏᪐᪑᪒᪓᪔᪕᪖᪗᪘᪙᪚᪛᪜᪝᪞᪟᪠᪡᪢᪣᪤᪥᪦ᪧ᪨᪩᪪᪫᪬᪭᪮᪯᪵᪶᪷᪸᪹᪺᪽᪰᪱᪲᪳᪴᪻᪼᪾ᪿᫀ᫃᫄᫊᫁᫂᫅᫆᫇᫈᫉᫋ᫌᫍᫎ᫏᫐᫑᫒᫓᫔᫕᫖᫗᫘᫙᫚᫛᫜᫝᫞᫟᫠᫡᫢᫣᫤᫥᫦᫧᫨᫩᫪᫫᫬᫭᫮᫯᫰᫱᫲᫳᫴᫵᫶᫷᫸᫹᫺᫻᫼᫽᫾᫿",
     "ᮀᮁᮂᮃᮄᮅᮆᮇᮈᮉᮊᮋᮌᮍᮎᮏᮐᮑᮒᮓᮔᮕᮖᮗᮘᮙᮚᮛᮜᮝᮞᮟᮠᮡᮢᮣᮤᮥᮦᮧᮨᮩ᮪᮫ᮬᮭᮮᮯ᮰᮱᮲᮳᮴᮵᮶᮷᮸᮹ᮺᮻᮼᮽᮾᮿᯀᯁᯂᯃᯄᯅᯆᯇᯈᯉᯊᯋᯌᯍᯎᯏᯐᯑᯒᯓᯔᯕᯖᯗᯘᯙᯚᯛᯜᯝᯞᯟᯠᯡᯢᯣᯤᯥ᯦ᯧᯨᯩᯪᯫᯬᯭᯮᯯᯰᯱ᯲᯳᯴᯵᯶᯷᯸᯹᯺᯻᯼᯽᯾᯿",
     "ᲀᲁᲂᲃᲄᲅᲆᲇᲈᲉᲊ᲋᲌᲍᲎᲏ᲐᲑᲒᲓᲔᲕᲖᲗᲘᲙᲚᲛᲜᲝᲞᲟᲠᲡᲢᲣᲤᲥᲦᲧᲨᲩᲪᲫᲬᲭᲮᲯᲰᲱᲲᲳᲴᲵᲶᲷᲸᲹᲺ᲻᲼ᲽᲾᲿ᳀᳁᳂᳃᳄᳅᳆᳇᳈᳉᳊᳋᳌᳍᳎᳏᳐᳑᳒᳓᳔᳕᳖᳗᳘᳙᳜᳝᳞᳟᳚᳛᳠᳡᳢᳣᳤᳥᳦᳧᳨ᳩᳪᳫᳬ᳭ᳮᳯᳰᳱᳲᳳ᳴ᳵᳶ᳷᳸᳹ᳺ᳻᳼᳽᳾᳿",
     "ᶀᶁᶂᶃᶄᶅᶆᶇᶈᶉᶊᶋᶌᶍᶎᶏᶐᶑᶒᶓᶔᶕᶖᶗᶘᶙᶚᶛᶜᶝᶞᶟᶠᶡᶢᶣᶤᶥᶦᶧᶨᶩᶪᶫᶬᶭᶮᶯᶰᶱᶲᶳᶴᶵᶶᶷᶸᶹᶺᶻᶼᶽᶾᶿ᷐᷎᷺᷂᷊᷏᷹᷽᷿᷷᷸᷀᷁᷃᷄᷅᷆᷇᷈᷉᷋᷌᷑᷒ᷓᷔᷕᷖᷗᷘᷙᷚᷛᷜᷝᷞᷟᷠᷡᷢᷣᷤᷥᷦᷧᷨᷩᷪᷫᷬᷭᷮᷯᷰᷱᷲᷳᷴ᷵᷻᷾᷶᷼᷍",
     "ẀẁẂẃẄẅẆẇẈẉẊẋẌẍẎẏẐẑẒẓẔẕẖẗẘẙẚẛẜẝẞẟẠạẢảẤấẦầẨẩẪẫẬậẮắẰằẲẳẴẵẶặẸẹẺẻẼẽẾếỀềỂểỄễỆệỈỉỊịỌọỎỏỐốỒồỔổỖỗỘộỚớỜờỞởỠỡỢợỤụỦủỨứỪừỬửỮữỰựỲỳỴỵỶỷỸỹỺỻỼỽỾỿ",
     "ᾀᾁᾂᾃᾄᾅᾆᾇᾈᾉᾊᾋᾌᾍᾎᾏᾐᾑᾒᾓᾔᾕᾖᾗᾘᾙᾚᾛᾜᾝᾞᾟᾠᾡᾢᾣᾤᾥᾦᾧᾨᾩᾪᾫᾬᾭᾮᾯᾰᾱᾲᾳᾴ᾵ᾶᾷᾸᾹᾺΆᾼ᾽ι᾿῀῁ῂῃῄ῅ῆῇῈΈῊΉῌ῍῎῏ῐῑῒΐ῔῕ῖῗῘῙῚΊ῜῝῞῟ῠῡῢΰῤῥῦῧῨῩῪΎῬ῭΅`῰῱ῲῳῴ῵ῶῷῸΌῺΏῼ´῾῿",
     "₀₁₂₃₄₅₆₇₈₉₊₋₌₍₎₏ₐₑₒₓₔₕₖₗₘₙₚₛₜ₝₞₟₠₡₢₣₤₥₦₧₨₩₪₫€₭₮₯₰₱₲₳₴₵₶₷₸₹₺₻₼₽₾₿⃀⃁⃂⃃⃄⃅⃆⃇⃈⃉⃊⃋⃌⃍⃎⃏⃒⃓⃘⃙⃚⃐⃑⃔⃕⃖⃗⃛⃜⃝⃞⃟⃠⃡⃢⃣⃤⃥⃦⃪⃫⃨⃬⃭⃮⃯⃧⃩⃰⃱⃲⃳⃴⃵⃶⃷⃸⃹⃺⃻⃼⃽⃾⃿",
     "ↀↁↂↃↄↅↆↇↈ↉↊↋↌↍↎↏←↑→↓↔↕↖↗↘↙↚↛↜↝↞↟↠↡↢↣↤↥↦↧↨↩↪↫↬↭↮↯↰↱↲↳↴↵↶↷↸↹↺↻↼↽↾↿⇀⇁⇂⇃⇄⇅⇆⇇⇈⇉⇊⇋⇌⇍⇎⇏⇐⇑⇒⇓⇔⇕⇖⇗⇘⇙⇚⇛⇜⇝⇞⇟⇠⇡⇢⇣⇤⇥⇦⇧⇨⇩⇪⇫⇬⇭⇮⇯⇰⇱⇲⇳⇴⇵⇶⇷⇸⇹⇺⇻⇼⇽⇾⇿",
     "⊀⊁⊂⊃⊄⊅⊆⊇⊈⊉⊊⊋⊌⊍⊎⊏⊐⊑⊒⊓⊔⊕⊖⊗⊘⊙⊚⊛⊜⊝⊞⊟⊠⊡⊢⊣⊤⊥⊦⊧⊨⊩⊪⊫⊬⊭⊮⊯⊰⊱⊲⊳⊴⊵⊶⊷⊸⊹⊺⊻⊼⊽⊾⊿⋀⋁⋂⋃⋄⋅⋆⋇⋈⋉⋊⋋⋌⋍⋎⋏⋐⋑⋒⋓⋔⋕⋖⋗⋘⋙⋚⋛⋜⋝⋞⋟⋠⋡⋢⋣⋤⋥⋦⋧⋨⋩⋪⋫⋬⋭⋮⋯⋰⋱⋲⋳⋴⋵⋶⋷⋸⋹⋺⋻⋼⋽⋾⋿",
     "⎀⎁⎂⎃⎄⎅⎆⎇⎈⎉⎊⎋⎌⎍⎎⎏⎐⎑⎒⎓⎔⎕⎖⎗⎘⎙⎚⎛⎜⎝⎞⎟⎠⎡⎢⎣⎤⎥⎦⎧⎨⎩⎪⎫⎬⎭⎮⎯⎰⎱⎲⎳⎴⎵⎶⎷⎸⎹⎺⎻⎼⎽⎾⎿⏀⏁⏂⏃⏄⏅⏆⏇⏈⏉⏊⏋⏌⏍⏎⏏⏐⏑⏒⏓⏔⏕⏖⏗⏘⏙⏚⏛⏜⏝⏞⏟⏠⏡⏢⏣⏤⏥⏦⏧⏨⏩⏪⏫⏬⏭⏮⏯⏰⏱⏲⏳⏴⏵⏶⏷⏸⏹⏺⏻⏼⏽⏾⏿",
     "⒀⒁⒂⒃⒄⒅⒆⒇⒈⒉⒊⒋⒌⒍⒎⒏⒐⒑⒒⒓⒔⒕⒖⒗⒘⒙⒚⒛⒜⒝⒞⒟⒠⒡⒢⒣⒤⒥⒦⒧⒨⒩⒪⒫⒬⒭⒮⒯⒰⒱⒲⒳⒴⒵ⒶⒷⒸⒹⒺⒻⒼⒽⒾⒿⓀⓁⓂⓃⓄⓅⓆⓇⓈⓉⓊⓋⓌⓍⓎⓏⓐⓑⓒⓓⓔⓕⓖⓗⓘⓙⓚⓛⓜⓝⓞⓟⓠⓡⓢⓣⓤⓥⓦⓧⓨⓩ⓪⓫⓬⓭⓮⓯⓰⓱⓲⓳⓴⓵⓶⓷⓸⓹⓺⓻⓼⓽⓾⓿",
     "▀▁▂▃▄▅▆▇█▉▊▋▌▍▎▏▐░▒▓▔▕▖▗▘▙▚▛▜▝▞▟■□▢▣▤▥▦▧▨▩▪▫▬▭▮▯▰▱▲△▴▵▶▷▸▹►▻▼▽▾▿◀◁◂◃◄◅◆◇◈◉◊○◌◍◎●◐◑◒◓◔◕◖◗◘◙◚◛◜◝◞◟◠◡◢◣◤◥◦◧◨◩◪◫◬◭◮◯◰◱◲◳◴◵◶◷◸◹◺◻◼◽◾◿",
     "⚀⚁⚂⚃⚄⚅⚆⚇⚈⚉⚊⚋⚌⚍⚎⚏⚐⚑⚒⚓⚔⚕⚖⚗⚘⚙⚚⚛⚜⚝⚞⚟⚠⚡⚢⚣⚤⚥⚦⚧⚨⚩⚪⚫⚬⚭⚮⚯⚰⚱⚲⚳⚴⚵⚶⚷⚸⚹⚺⚻⚼⚽⚾⚿⛀⛁⛂⛃⛄⛅⛆⛇⛈⛉⛊⛋⛌⛍⛎⛏⛐⛑⛒⛓⛔⛕⛖⛗⛘⛙⛚⛛⛜⛝⛞⛟⛠⛡⛢⛣⛤⛥⛦⛧⛨⛩⛪⛫⛬⛭⛮⛯⛰⛱⛲⛳⛴⛵⛶⛷⛸⛹⛺⛻⛼⛽⛾⛿",
     "➀➁➂➃➄➅➆➇➈➉➊➋➌➍➎➏➐➑➒➓➔➕➖➗➘➙➚➛➜➝➞➟➠➡➢➣➤➥➦➧➨➩➪➫➬➭➮➯➰➱➲➳➴➵➶➷➸➹➺➻➼➽➾➿⟀⟁⟂⟃⟄⟅⟆⟇⟈⟉⟊⟋⟌⟍⟎⟏⟐⟑⟒⟓⟔⟕⟖⟗⟘⟙⟚⟛⟜⟝⟞⟟⟠⟡⟢⟣⟤⟥⟦⟧⟨⟩⟪⟫⟬⟭⟮⟯⟰⟱⟲⟳⟴⟵⟶⟷⟸⟹⟺⟻⟼⟽⟾⟿",
     "⢀⢁⢂⢃⢄⢅⢆⢇⢈⢉⢊⢋⢌⢍⢎⢏⢐⢑⢒⢓⢔⢕⢖⢗⢘⢙⢚⢛⢜⢝⢞⢟⢠⢡⢢⢣⢤⢥⢦⢧⢨⢩⢪⢫⢬⢭⢮⢯⢰⢱⢲⢳⢴⢵⢶⢷⢸⢹⢺⢻⢼⢽⢾⢿⣀⣁⣂⣃⣄⣅⣆⣇⣈⣉⣊⣋⣌⣍⣎⣏⣐⣑⣒⣓⣔⣕⣖⣗⣘⣙⣚⣛⣜⣝⣞⣟⣠⣡⣢⣣⣤⣥⣦⣧⣨⣩⣪⣫⣬⣭⣮⣯⣰⣱⣲⣳⣴⣵⣶⣷⣸⣹⣺⣻⣼⣽⣾⣿",
     "⦀⦁⦂⦃⦄⦅⦆⦇⦈⦉⦊⦋⦌⦍⦎⦏⦐⦑⦒⦓⦔⦕⦖⦗⦘⦙⦚⦛⦜⦝⦞⦟⦠⦡⦢⦣⦤⦥⦦⦧⦨⦩⦪⦫⦬⦭⦮⦯⦰⦱⦲⦳⦴⦵⦶⦷⦸⦹⦺⦻⦼⦽⦾⦿⧀⧁⧂⧃⧄⧅⧆⧇⧈⧉⧊⧋⧌⧍⧎⧏⧐⧑⧒⧓⧔⧕⧖⧗⧘⧙⧚⧛⧜⧝⧞⧟⧠⧡⧢⧣⧤⧥⧦⧧⧨⧩⧪⧫⧬⧭⧮⧯⧰⧱⧲⧳⧴⧵⧶⧷⧸⧹⧺⧻⧼⧽⧾⧿",
     "⪀⪁⪂⪃⪄⪅⪆⪇⪈⪉⪊⪋⪌⪍⪎⪏⪐⪑⪒⪓⪔⪕⪖⪗⪘⪙⪚⪛⪜⪝⪞⪟⪠⪡⪢⪣⪤⪥⪦⪧⪨⪩⪪⪫⪬⪭⪮⪯⪰⪱⪲⪳⪴⪵⪶⪷⪸⪹⪺⪻⪼⪽⪾⪿⫀⫁⫂⫃⫄⫅⫆⫇⫈⫉⫊⫋⫌⫍⫎⫏⫐⫑⫒⫓⫔⫕⫖⫗⫘⫙⫚⫛⫝̸⫝⫞⫟⫠⫡⫢⫣⫤⫥⫦⫧⫨⫩⫪⫫⫬⫭⫮⫯⫰⫱⫲⫳⫴⫵⫶⫷⫸⫹⫺⫻⫼⫽⫾⫿",
     "⮀⮁⮂⮃⮄⮅⮆⮇⮈⮉⮊⮋⮌⮍⮎⮏⮐⮑⮒⮓⮔⮕⮖⮗⮘⮙⮚⮛⮜⮝⮞⮟⮠⮡⮢⮣⮤⮥⮦⮧⮨⮩⮪⮫⮬⮭⮮⮯⮰⮱⮲⮳⮴⮵⮶⮷⮸⮹⮺⮻⮼⮽⮾⮿⯀⯁⯂⯃⯄⯅⯆⯇⯈⯉⯊⯋⯌⯍⯎⯏⯐⯑⯒⯓⯔⯕⯖⯗⯘⯙⯚⯛⯜⯝⯞⯟⯠⯡⯢⯣⯤⯥⯦⯧⯨⯩⯪⯫⯬⯭⯮⯯⯰⯱⯲⯳⯴⯵⯶⯷⯸⯹⯺⯻⯼⯽⯾⯿",
     "ⲀⲁⲂⲃⲄⲅⲆⲇⲈⲉⲊⲋⲌⲍⲎⲏⲐⲑⲒⲓⲔⲕⲖⲗⲘⲙⲚⲛⲜⲝⲞⲟⲠⲡⲢⲣⲤⲥⲦⲧⲨⲩⲪⲫⲬⲭⲮⲯⲰⲱⲲⲳⲴⲵⲶⲷⲸⲹⲺⲻⲼⲽⲾⲿⳀⳁⳂⳃⳄⳅⳆⳇⳈⳉⳊⳋⳌⳍⳎⳏⳐⳑⳒⳓⳔⳕⳖⳗⳘⳙⳚⳛⳜⳝⳞⳟⳠⳡⳢⳣⳤ⳥⳦⳧⳨⳩⳪ⳫⳬⳭⳮ⳯⳰⳱Ⳳⳳ⳴⳵⳶⳷⳸⳹⳺⳻⳼⳽⳾⳿",
     "ⶀⶁⶂⶃⶄⶅⶆⶇⶈⶉⶊⶋⶌⶍⶎⶏⶐⶑⶒⶓⶔⶕⶖ⶗⶘⶙⶚⶛⶜⶝⶞⶟ⶠⶡⶢⶣⶤⶥⶦ⶧ⶨⶩⶪⶫⶬⶭⶮ⶯ⶰⶱⶲⶳⶴⶵⶶ⶷ⶸⶹⶺⶻⶼⶽⶾ⶿ⷀⷁⷂⷃⷄⷅⷆ⷇ⷈⷉⷊⷋⷌⷍⷎ⷏ⷐⷑⷒⷓⷔⷕⷖ⷗ⷘⷙⷚⷛⷜⷝⷞ⷟ⷠⷡⷢⷣⷤⷥⷦⷧⷨⷩⷪⷫⷬⷭⷮⷯⷰⷱⷲⷳⷴⷵⷶⷷⷸⷹⷺⷻⷼⷽⷾⷿ",
     "⺀⺁⺂⺃⺄⺅⺆⺇⺈⺉⺊⺋⺌⺍⺎⺏⺐⺑⺒⺓⺔⺕⺖⺗⺘⺙⺚⺛⺜⺝⺞⺟⺠⺡⺢⺣⺤⺥⺦⺧⺨⺩⺪⺫⺬⺭⺮⺯⺰⺱⺲⺳⺴⺵⺶⺷⺸⺹⺺⺻⺼⺽⺾⺿⻀⻁⻂⻃⻄⻅⻆⻇⻈⻉⻊⻋⻌⻍⻎⻏⻐⻑⻒⻓⻔⻕⻖⻗⻘⻙⻚⻛⻜⻝⻞⻟⻠⻡⻢⻣⻤⻥⻦⻧⻨⻩⻪⻫⻬⻭⻮⻯⻰⻱⻲⻳⻴⻵⻶⻷⻸⻹⻺⻻⻼⻽⻾⻿",
     "⾀⾁⾂⾃⾄⾅⾆⾇⾈⾉⾊⾋⾌⾍⾎⾏⾐⾑⾒⾓⾔⾕⾖⾗⾘⾙⾚⾛⾜⾝⾞⾟⾠⾡⾢⾣⾤⾥⾦⾧⾨⾩⾪⾫⾬⾭⾮⾯⾰⾱⾲⾳⾴⾵⾶⾷⾸⾹⾺⾻⾼⾽⾾⾿⿀⿁⿂⿃⿄⿅⿆⿇⿈⿉⿊⿋⿌⿍⿎⿏⿐⿑⿒⿓⿔⿕⿖⿗⿘⿙⿚⿛⿜⿝⿞⿟⿠⿡⿢⿣⿤⿥⿦⿧⿨⿩⿪⿫⿬⿭⿮⿯⿰⿱⿲⿳⿴⿵⿶⿷⿸⿹⿺⿻⿼⿽⿾⿿",
     "むめもゃやゅゆょよらりるれろゎわゐゑをんゔゕゖ゗゘゙゚゛゜ゝゞゟ゠ァアィイゥウェエォオカガキギクグケゲコゴサザシジスズセゼソゾタダチヂッツヅテデトドナニヌネノハバパヒビピフブプヘベペホボポマミムメモャヤュユョヨラリルレロヮワヰヱヲンヴヵヶヷヸヹヺ・ーヽヾヿ",
     "ㆀㆁㆂㆃㆄㆅㆆㆇㆈㆉㆊㆋㆌㆍㆎ㆏㆐㆑㆒㆓㆔㆕㆖㆗㆘㆙㆚㆛㆜㆝㆞㆟ㆠㆡㆢㆣㆤㆥㆦㆧㆨㆩㆪㆫㆬㆭㆮㆯㆰㆱㆲㆳㆴㆵㆶㆷㆸㆹㆺㆻㆼㆽㆾㆿ㇀㇁㇂㇃㇄㇅㇆㇇㇈㇉㇊㇋㇌㇍㇎㇏㇐㇑㇒㇓㇔㇕㇖㇗㇘㇙㇚㇛㇜㇝㇞㇟㇠㇡㇢㇣㇤㇥㇦㇧㇨㇩㇪㇫㇬㇭㇮㇯ㇰㇱㇲㇳㇴㇵㇶㇷㇸㇹㇺㇻㇼㇽㇾㇿ",
     "㊀㊁㊂㊃㊄㊅㊆㊇㊈㊉㊊㊋㊌㊍㊎㊏㊐㊑㊒㊓㊔㊕㊖㊗㊘㊙㊚㊛㊜㊝㊞㊟㊠㊡㊢㊣㊤㊥㊦㊧㊨㊩㊪㊫㊬㊭㊮㊯㊰㊱㊲㊳㊴㊵㊶㊷㊸㊹㊺㊻㊼㊽㊾㊿㋀㋁㋂㋃㋄㋅㋆㋇㋈㋉㋊㋋㋌㋍㋎㋏㋐㋑㋒㋓㋔㋕㋖㋗㋘㋙㋚㋛㋜㋝㋞㋟㋠㋡㋢㋣㋤㋥㋦㋧㋨㋩㋪㋫㋬㋭㋮㋯㋰㋱㋲㋳㋴㋵㋶㋷㋸㋹㋺㋻㋼㋽㋾㋿",
     "㎀㎁㎂㎃㎄㎅㎆㎇㎈㎉㎊㎋㎌㎍㎎㎏㎐㎑㎒㎓㎔㎕㎖㎗㎘㎙㎚㎛㎜㎝㎞㎟㎠㎡㎢㎣㎤㎥㎦㎧㎨㎩㎪㎫㎬㎭㎮㎯㎰㎱㎲㎳㎴㎵㎶㎷㎸㎹㎺㎻㎼㎽㎾㎿㏀㏁㏂㏃㏄㏅㏆㏇㏈㏉㏊㏋㏌㏍㏎㏏㏐㏑㏒㏓㏔㏕㏖㏗㏘㏙㏚㏛㏜㏝㏞㏟㏠㏡㏢㏣㏤㏥㏦㏧㏨㏩㏪㏫㏬㏭㏮㏯㏰㏱㏲㏳㏴㏵㏶㏷㏸㏹㏺㏻㏼㏽㏾㏿",
     "㒀㒁㒂㒃㒄㒅㒆㒇㒈㒉㒊㒋㒌㒍㒎㒏㒐㒑㒒㒓㒔㒕㒖㒗㒘㒙㒚㒛㒜㒝㒞㒟㒠㒡㒢㒣㒤㒥㒦㒧㒨㒩㒪㒫㒬㒭㒮㒯㒰㒱㒲㒳㒴㒵㒶㒷㒸㒹㒺㒻㒼㒽㒾㒿㓀㓁㓂㓃㓄㓅㓆㓇㓈㓉㓊㓋㓌㓍㓎㓏㓐㓑㓒㓓㓔㓕㓖㓗㓘㓙㓚㓛㓜㓝㓞㓟㓠㓡㓢㓣㓤㓥㓦㓧㓨㓩㓪㓫㓬㓭㓮㓯㓰㓱㓲㓳㓴㓵㓶㓷㓸㓹㓺㓻㓼㓽㓾㓿",
     "㖀㖁㖂㖃㖄㖅㖆㖇㖈㖉㖊㖋㖌㖍㖎㖏㖐㖑㖒㖓㖔㖕㖖㖗㖘㖙㖚㖛㖜㖝㖞㖟㖠㖡㖢㖣㖤㖥㖦㖧㖨㖩㖪㖫㖬㖭㖮㖯㖰㖱㖲㖳㖴㖵㖶㖷㖸㖹㖺㖻㖼㖽㖾㖿㗀㗁㗂㗃㗄㗅㗆㗇㗈㗉㗊㗋㗌㗍㗎㗏㗐㗑㗒㗓㗔㗕㗖㗗㗘㗙㗚㗛㗜㗝㗞㗟㗠㗡㗢㗣㗤㗥㗦㗧㗨㗩㗪㗫㗬㗭㗮㗯㗰㗱㗲㗳㗴㗵㗶㗷㗸㗹㗺㗻㗼㗽㗾㗿",
     "㚀㚁㚂㚃㚄㚅㚆㚇㚈㚉㚊㚋㚌㚍㚎㚏㚐㚑㚒㚓㚔㚕㚖㚗㚘㚙㚚㚛㚜㚝㚞㚟㚠㚡㚢㚣㚤㚥㚦㚧㚨㚩㚪㚫㚬㚭㚮㚯㚰㚱㚲㚳㚴㚵㚶㚷㚸㚹㚺㚻㚼㚽㚾㚿㛀㛁㛂㛃㛄㛅㛆㛇㛈㛉㛊㛋㛌㛍㛎㛏㛐㛑㛒㛓㛔㛕㛖㛗㛘㛙㛚㛛㛜㛝㛞㛟㛠㛡㛢㛣㛤㛥㛦㛧㛨㛩㛪㛫㛬㛭㛮㛯㛰㛱㛲㛳㛴㛵㛶㛷㛸㛹㛺㛻㛼㛽㛾㛿",
     "㞀㞁㞂㞃㞄㞅㞆㞇㞈㞉㞊㞋㞌㞍㞎㞏㞐㞑㞒㞓㞔㞕㞖㞗㞘㞙㞚㞛㞜㞝㞞㞟㞠㞡㞢㞣㞤㞥㞦㞧㞨㞩㞪㞫㞬㞭㞮㞯㞰㞱㞲㞳㞴㞵㞶㞷㞸㞹㞺㞻㞼㞽㞾㞿㟀㟁㟂㟃㟄㟅㟆㟇㟈㟉㟊㟋㟌㟍㟎㟏㟐㟑㟒㟓㟔㟕㟖㟗㟘㟙㟚㟛㟜㟝㟞㟟㟠㟡㟢㟣㟤㟥㟦㟧㟨㟩㟪㟫㟬㟭㟮㟯㟰㟱㟲㟳㟴㟵㟶㟷㟸㟹㟺㟻㟼㟽㟾㟿",
     "㢀㢁㢂㢃㢄㢅㢆㢇㢈㢉㢊㢋㢌㢍㢎㢏㢐㢑㢒㢓㢔㢕㢖㢗㢘㢙㢚㢛㢜㢝㢞㢟㢠㢡㢢㢣㢤㢥㢦㢧㢨㢩㢪㢫㢬㢭㢮㢯㢰㢱㢲㢳㢴㢵㢶㢷㢸㢹㢺㢻㢼㢽㢾㢿㣀㣁㣂㣃㣄㣅㣆㣇㣈㣉㣊㣋㣌㣍㣎㣏㣐㣑㣒㣓㣔㣕㣖㣗㣘㣙㣚㣛㣜㣝㣞㣟㣠㣡㣢㣣㣤㣥㣦㣧㣨㣩㣪㣫㣬㣭㣮㣯㣰㣱㣲㣳㣴㣵㣶㣷㣸㣹㣺㣻㣼㣽㣾㣿",
     "㦀㦁㦂㦃㦄㦅㦆㦇㦈㦉㦊㦋㦌㦍㦎㦏㦐㦑㦒㦓㦔㦕㦖㦗㦘㦙㦚㦛㦜㦝㦞㦟㦠㦡㦢㦣㦤㦥㦦㦧㦨㦩㦪㦫㦬㦭㦮㦯㦰㦱㦲㦳㦴㦵㦶㦷㦸㦹㦺㦻㦼㦽㦾㦿㧀㧁㧂㧃㧄㧅㧆㧇㧈㧉㧊㧋㧌㧍㧎㧏㧐㧑㧒㧓㧔㧕㧖㧗㧘㧙㧚㧛㧜㧝㧞㧟㧠㧡㧢㧣㧤㧥㧦㧧㧨㧩㧪㧫㧬㧭㧮㧯㧰㧱㧲㧳㧴㧵㧶㧷㧸㧹㧺㧻㧼㧽㧾㧿",
     "㪀㪁㪂㪃㪄㪅㪆㪇㪈㪉㪊㪋㪌㪍㪎㪏㪐㪑㪒㪓㪔㪕㪖㪗㪘㪙㪚㪛㪜㪝㪞㪟㪠㪡㪢㪣㪤㪥㪦㪧㪨㪩㪪㪫㪬㪭㪮㪯㪰㪱㪲㪳㪴㪵㪶㪷㪸㪹㪺㪻㪼㪽㪾㪿㫀㫁㫂㫃㫄㫅㫆㫇㫈㫉㫊㫋㫌㫍㫎㫏㫐㫑㫒㫓㫔㫕㫖㫗㫘㫙㫚㫛㫜㫝㫞㫟㫠㫡㫢㫣㫤㫥㫦㫧㫨㫩㫪㫫㫬㫭㫮㫯㫰㫱㫲㫳㫴㫵㫶㫷㫸㫹㫺㫻㫼㫽㫾㫿",
     "㮀㮁㮂㮃㮄㮅㮆㮇㮈㮉㮊㮋㮌㮍㮎㮏㮐㮑㮒㮓㮔㮕㮖㮗㮘㮙㮚㮛㮜㮝㮞㮟㮠㮡㮢㮣㮤㮥㮦㮧㮨㮩㮪㮫㮬㮭㮮㮯㮰㮱㮲㮳㮴㮵㮶㮷㮸㮹㮺㮻㮼㮽㮾㮿㯀㯁㯂㯃㯄㯅㯆㯇㯈㯉㯊㯋㯌㯍㯎㯏㯐㯑㯒㯓㯔㯕㯖㯗㯘㯙㯚㯛㯜㯝㯞㯟㯠㯡㯢㯣㯤㯥㯦㯧㯨㯩㯪㯫㯬㯭㯮㯯㯰㯱㯲㯳㯴㯵㯶㯷㯸㯹㯺㯻㯼㯽㯾㯿",
     "㲀㲁㲂㲃㲄㲅㲆㲇㲈㲉㲊㲋㲌㲍㲎㲏㲐㲑㲒㲓㲔㲕㲖㲗㲘㲙㲚㲛㲜㲝㲞㲟㲠㲡㲢㲣㲤㲥㲦㲧㲨㲩㲪㲫㲬㲭㲮㲯㲰㲱㲲㲳㲴㲵㲶㲷㲸㲹㲺㲻㲼㲽㲾㲿㳀㳁㳂㳃㳄㳅㳆㳇㳈㳉㳊㳋㳌㳍㳎㳏㳐㳑㳒㳓㳔㳕㳖㳗㳘㳙㳚㳛㳜㳝㳞㳟㳠㳡㳢㳣㳤㳥㳦㳧㳨㳩㳪㳫㳬㳭㳮㳯㳰㳱㳲㳳㳴㳵㳶㳷㳸㳹㳺㳻㳼㳽㳾㳿",
     "㶀㶁㶂㶃㶄㶅㶆㶇㶈㶉㶊㶋㶌㶍㶎㶏㶐㶑㶒㶓㶔㶕㶖㶗㶘㶙㶚㶛㶜㶝㶞㶟㶠㶡㶢㶣㶤㶥㶦㶧㶨㶩㶪㶫㶬㶭㶮㶯㶰㶱㶲㶳㶴㶵㶶㶷㶸㶹㶺㶻㶼㶽㶾㶿㷀㷁㷂㷃㷄㷅㷆㷇㷈㷉㷊㷋㷌㷍㷎㷏㷐㷑㷒㷓㷔㷕㷖㷗㷘㷙㷚㷛㷜㷝㷞㷟㷠㷡㷢㷣㷤㷥㷦㷧㷨㷩㷪㷫㷬㷭㷮㷯㷰㷱㷲㷳㷴㷵㷶㷷㷸㷹㷺㷻㷼㷽㷾㷿",
     "㺀㺁㺂㺃㺄㺅㺆㺇㺈㺉㺊㺋㺌㺍㺎㺏㺐㺑㺒㺓㺔㺕㺖㺗㺘㺙㺚㺛㺜㺝㺞㺟㺠㺡㺢㺣㺤㺥㺦㺧㺨㺩㺪㺫㺬㺭㺮㺯㺰㺱㺲㺳㺴㺵㺶㺷㺸㺹㺺㺻㺼㺽㺾㺿㻀㻁㻂㻃㻄㻅㻆㻇㻈㻉㻊㻋㻌㻍㻎㻏㻐㻑㻒㻓㻔㻕㻖㻗㻘㻙㻚㻛㻜㻝㻞㻟㻠㻡㻢㻣㻤㻥㻦㻧㻨㻩㻪㻫㻬㻭㻮㻯㻰㻱㻲㻳㻴㻵㻶㻷㻸㻹㻺㻻㻼㻽㻾㻿",
     "㾀㾁㾂㾃㾄㾅㾆㾇㾈㾉㾊㾋㾌㾍㾎㾏㾐㾑㾒㾓㾔㾕㾖㾗㾘㾙㾚㾛㾜㾝㾞㾟㾠㾡㾢㾣㾤㾥㾦㾧㾨㾩㾪㾫㾬㾭㾮㾯㾰㾱㾲㾳㾴㾵㾶㾷㾸㾹㾺㾻㾼㾽㾾㾿㿀㿁㿂㿃㿄㿅㿆㿇㿈㿉㿊㿋㿌㿍㿎㿏㿐㿑㿒㿓㿔㿕㿖㿗㿘㿙㿚㿛㿜㿝㿞㿟㿠㿡㿢㿣㿤㿥㿦㿧㿨㿩㿪㿫㿬㿭㿮㿯㿰㿱㿲㿳㿴㿵㿶㿷㿸㿹㿺㿻㿼㿽㿾㿿",
     "䂀䂁䂂䂃䂄䂅䂆䂇䂈䂉䂊䂋䂌䂍䂎䂏䂐䂑䂒䂓䂔䂕䂖䂗䂘䂙䂚䂛䂜䂝䂞䂟䂠䂡䂢䂣䂤䂥䂦䂧䂨䂩䂪䂫䂬䂭䂮䂯䂰䂱䂲䂳䂴䂵䂶䂷䂸䂹䂺䂻䂼䂽䂾䂿䃀䃁䃂䃃䃄䃅䃆䃇䃈䃉䃊䃋䃌䃍䃎䃏䃐䃑䃒䃓䃔䃕䃖䃗䃘䃙䃚䃛䃜䃝䃞䃟䃠䃡䃢䃣䃤䃥䃦䃧䃨䃩䃪䃫䃬䃭䃮䃯䃰䃱䃲䃳䃴䃵䃶䃷䃸䃹䃺䃻䃼䃽䃾䃿",
     "䆀䆁䆂䆃䆄䆅䆆䆇䆈䆉䆊䆋䆌䆍䆎䆏䆐䆑䆒䆓䆔䆕䆖䆗䆘䆙䆚䆛䆜䆝䆞䆟䆠䆡䆢䆣䆤䆥䆦䆧䆨䆩䆪䆫䆬䆭䆮䆯䆰䆱䆲䆳䆴䆵䆶䆷䆸䆹䆺䆻䆼䆽䆾䆿䇀䇁䇂䇃䇄䇅䇆䇇䇈䇉䇊䇋䇌䇍䇎䇏䇐䇑䇒䇓䇔䇕䇖䇗䇘䇙䇚䇛䇜䇝䇞䇟䇠䇡䇢䇣䇤䇥䇦䇧䇨䇩䇪䇫䇬䇭䇮䇯䇰䇱䇲䇳䇴䇵䇶䇷䇸䇹䇺䇻䇼䇽䇾䇿",
     "䊀䊁䊂䊃䊄䊅䊆䊇䊈䊉䊊䊋䊌䊍䊎䊏䊐䊑䊒䊓䊔䊕䊖䊗䊘䊙䊚䊛䊜䊝䊞䊟䊠䊡䊢䊣䊤䊥䊦䊧䊨䊩䊪䊫䊬䊭䊮䊯䊰䊱䊲䊳䊴䊵䊶䊷䊸䊹䊺䊻䊼䊽䊾䊿䋀䋁䋂䋃䋄䋅䋆䋇䋈䋉䋊䋋䋌䋍䋎䋏䋐䋑䋒䋓䋔䋕䋖䋗䋘䋙䋚䋛䋜䋝䋞䋟䋠䋡䋢䋣䋤䋥䋦䋧䋨䋩䋪䋫䋬䋭䋮䋯䋰䋱䋲䋳䋴䋵䋶䋷䋸䋹䋺䋻䋼䋽䋾䋿",
     "䎀䎁䎂䎃䎄䎅䎆䎇䎈䎉䎊䎋䎌䎍䎎䎏䎐䎑䎒䎓䎔䎕䎖䎗䎘䎙䎚䎛䎜䎝䎞䎟䎠䎡䎢䎣䎤䎥䎦䎧䎨䎩䎪䎫䎬䎭䎮䎯䎰䎱䎲䎳䎴䎵䎶䎷䎸䎹䎺䎻䎼䎽䎾䎿䏀䏁䏂䏃䏄䏅䏆䏇䏈䏉䏊䏋䏌䏍䏎䏏䏐䏑䏒䏓䏔䏕䏖䏗䏘䏙䏚䏛䏜䏝䏞䏟䏠䏡䏢䏣䏤䏥䏦䏧䏨䏩䏪䏫䏬䏭䏮䏯䏰䏱䏲䏳䏴䏵䏶䏷䏸䏹䏺䏻䏼䏽䏾䏿",
     "䒀䒁䒂䒃䒄䒅䒆䒇䒈䒉䒊䒋䒌䒍䒎䒏䒐䒑䒒䒓䒔䒕䒖䒗䒘䒙䒚䒛䒜䒝䒞䒟䒠䒡䒢䒣䒤䒥䒦䒧䒨䒩䒪䒫䒬䒭䒮䒯䒰䒱䒲䒳䒴䒵䒶䒷䒸䒹䒺䒻䒼䒽䒾䒿䓀䓁䓂䓃䓄䓅䓆䓇䓈䓉䓊䓋䓌䓍䓎䓏䓐䓑䓒䓓䓔䓕䓖䓗䓘䓙䓚䓛䓜䓝䓞䓟䓠䓡䓢䓣䓤䓥䓦䓧䓨䓩䓪䓫䓬䓭䓮䓯䓰䓱䓲䓳䓴䓵䓶䓷䓸䓹䓺䓻䓼䓽䓾䓿",
     "䖀䖁䖂䖃䖄䖅䖆䖇䖈䖉䖊䖋䖌䖍䖎䖏䖐䖑䖒䖓䖔䖕䖖䖗䖘䖙䖚䖛䖜䖝䖞䖟䖠䖡䖢䖣䖤䖥䖦䖧䖨䖩䖪䖫䖬䖭䖮䖯䖰䖱䖲䖳䖴䖵䖶䖷䖸䖹䖺䖻䖼䖽䖾䖿䗀䗁䗂䗃䗄䗅䗆䗇䗈䗉䗊䗋䗌䗍䗎䗏䗐䗑䗒䗓䗔䗕䗖䗗䗘䗙䗚䗛䗜䗝䗞䗟䗠䗡䗢䗣䗤䗥䗦䗧䗨䗩䗪䗫䗬䗭䗮䗯䗰䗱䗲䗳䗴䗵䗶䗷䗸䗹䗺䗻䗼䗽䗾䗿",
     "䚀䚁䚂䚃䚄䚅䚆䚇䚈䚉䚊䚋䚌䚍䚎䚏䚐䚑䚒䚓䚔䚕䚖䚗䚘䚙䚚䚛䚜䚝䚞䚟䚠䚡䚢䚣䚤䚥䚦䚧䚨䚩䚪䚫䚬䚭䚮䚯䚰䚱䚲䚳䚴䚵䚶䚷䚸䚹䚺䚻䚼䚽䚾䚿䛀䛁䛂䛃䛄䛅䛆䛇䛈䛉䛊䛋䛌䛍䛎䛏䛐䛑䛒䛓䛔䛕䛖䛗䛘䛙䛚䛛䛜䛝䛞䛟䛠䛡䛢䛣䛤䛥䛦䛧䛨䛩䛪䛫䛬䛭䛮䛯䛰䛱䛲䛳䛴䛵䛶䛷䛸䛹䛺䛻䛼䛽䛾䛿",
     "䞀䞁䞂䞃䞄䞅䞆䞇䞈䞉䞊䞋䞌䞍䞎䞏䞐䞑䞒䞓䞔䞕䞖䞗䞘䞙䞚䞛䞜䞝䞞䞟䞠䞡䞢䞣䞤䞥䞦䞧䞨䞩䞪䞫䞬䞭䞮䞯䞰䞱䞲䞳䞴䞵䞶䞷䞸䞹䞺䞻䞼䞽䞾䞿䟀䟁䟂䟃䟄䟅䟆䟇䟈䟉䟊䟋䟌䟍䟎䟏䟐䟑䟒䟓䟔䟕䟖䟗䟘䟙䟚䟛䟜䟝䟞䟟䟠䟡䟢䟣䟤䟥䟦䟧䟨䟩䟪䟫䟬䟭䟮䟯䟰䟱䟲䟳䟴䟵䟶䟷䟸䟹䟺䟻䟼䟽䟾䟿",
     "䢀䢁䢂䢃䢄䢅䢆䢇䢈䢉䢊䢋䢌䢍䢎䢏䢐䢑䢒䢓䢔䢕䢖䢗䢘䢙䢚䢛䢜䢝䢞䢟䢠䢡䢢䢣䢤䢥䢦䢧䢨䢩䢪䢫䢬䢭䢮䢯䢰䢱䢲䢳䢴䢵䢶䢷䢸䢹䢺䢻䢼䢽䢾䢿䣀䣁䣂䣃䣄䣅䣆䣇䣈䣉䣊䣋䣌䣍䣎䣏䣐䣑䣒䣓䣔䣕䣖䣗䣘䣙䣚䣛䣜䣝䣞䣟䣠䣡䣢䣣䣤䣥䣦䣧䣨䣩䣪䣫䣬䣭䣮䣯䣰䣱䣲䣳䣴䣵䣶䣷䣸䣹䣺䣻䣼䣽䣾䣿",
     "䦀䦁䦂䦃䦄䦅䦆䦇䦈䦉䦊䦋䦌䦍䦎䦏䦐䦑䦒䦓䦔䦕䦖䦗䦘䦙䦚䦛䦜䦝䦞䦟䦠䦡䦢䦣䦤䦥䦦䦧䦨䦩䦪䦫䦬䦭䦮䦯䦰䦱䦲䦳䦴䦵䦶䦷䦸䦹䦺䦻䦼䦽䦾䦿䧀䧁䧂䧃䧄䧅䧆䧇䧈䧉䧊䧋䧌䧍䧎䧏䧐䧑䧒䧓䧔䧕䧖䧗䧘䧙䧚䧛䧜䧝䧞䧟䧠䧡䧢䧣䧤䧥䧦䧧䧨䧩䧪䧫䧬䧭䧮䧯䧰䧱䧲䧳䧴䧵䧶䧷䧸䧹䧺䧻䧼䧽䧾䧿",
     "䪀䪁䪂䪃䪄䪅䪆䪇䪈䪉䪊䪋䪌䪍䪎䪏䪐䪑䪒䪓䪔䪕䪖䪗䪘䪙䪚䪛䪜䪝䪞䪟䪠䪡䪢䪣䪤䪥䪦䪧䪨䪩䪪䪫䪬䪭䪮䪯䪰䪱䪲䪳䪴䪵䪶䪷䪸䪹䪺䪻䪼䪽䪾䪿䫀䫁䫂䫃䫄䫅䫆䫇䫈䫉䫊䫋䫌䫍䫎䫏䫐䫑䫒䫓䫔䫕䫖䫗䫘䫙䫚䫛䫜䫝䫞䫟䫠䫡䫢䫣䫤䫥䫦䫧䫨䫩䫪䫫䫬䫭䫮䫯䫰䫱䫲䫳䫴䫵䫶䫷䫸䫹䫺䫻䫼䫽䫾䫿",
     "䮀䮁䮂䮃䮄䮅䮆䮇䮈䮉䮊䮋䮌䮍䮎䮏䮐䮑䮒䮓䮔䮕䮖䮗䮘䮙䮚䮛䮜䮝䮞䮟䮠䮡䮢䮣䮤䮥䮦䮧䮨䮩䮪䮫䮬䮭䮮䮯䮰䮱䮲䮳䮴䮵䮶䮷䮸䮹䮺䮻䮼䮽䮾䮿䯀䯁䯂䯃䯄䯅䯆䯇䯈䯉䯊䯋䯌䯍䯎䯏䯐䯑䯒䯓䯔䯕䯖䯗䯘䯙䯚䯛䯜䯝䯞䯟䯠䯡䯢䯣䯤䯥䯦䯧䯨䯩䯪䯫䯬䯭䯮䯯䯰䯱䯲䯳䯴䯵䯶䯷䯸䯹䯺䯻䯼䯽䯾䯿",
     "䲀䲁䲂䲃䲄䲅䲆䲇䲈䲉䲊䲋䲌䲍䲎䲏䲐䲑䲒䲓䲔䲕䲖䲗䲘䲙䲚䲛䲜䲝䲞䲟䲠䲡䲢䲣䲤䲥䲦䲧䲨䲩䲪䲫䲬䲭䲮䲯䲰䲱䲲䲳䲴䲵䲶䲷䲸䲹䲺䲻䲼䲽䲾䲿䳀䳁䳂䳃䳄䳅䳆䳇䳈䳉䳊䳋䳌䳍䳎䳏䳐䳑䳒䳓䳔䳕䳖䳗䳘䳙䳚䳛䳜䳝䳞䳟䳠䳡䳢䳣䳤䳥䳦䳧䳨䳩䳪䳫䳬䳭䳮䳯䳰䳱䳲䳳䳴䳵䳶䳷䳸䳹䳺䳻䳼䳽䳾䳿",
     "䶀䶁䶂䶃䶄䶅䶆䶇䶈䶉䶊䶋䶌䶍䶎䶏䶐䶑䶒䶓䶔䶕䶖䶗䶘䶙䶚䶛䶜䶝䶞䶟䶠䶡䶢䶣䶤䶥䶦䶧䶨䶩䶪䶫䶬䶭䶮䶯䶰䶱䶲䶳䶴䶵䶶䶷䶸䶹䶺䶻䶼䶽䶾䶿䷀䷁䷂䷃䷄䷅䷆䷇䷈䷉䷊䷋䷌䷍䷎䷏䷐䷑䷒䷓䷔䷕䷖䷗䷘䷙䷚䷛䷜䷝䷞䷟䷠䷡䷢䷣䷤䷥䷦䷧䷨䷩䷪䷫䷬䷭䷮䷯䷰䷱䷲䷳䷴䷵䷶䷷䷸䷹䷺䷻䷼䷽䷾䷿",
     "亀亁亂亃亄亅了亇予争亊事二亍于亏亐云互亓五井亖亗亘亙亚些亜亝亞亟亠亡亢亣交亥亦产亨亩亪享京亭亮亯亰亱亲亳亴亵亶亷亸亹人亻亼亽亾亿什仁仂仃仄仅仆仇仈仉今介仌仍从仏仐仑仒仓仔仕他仗付仙仚仛仜仝仞仟仠仡仢代令以仦仧仨仩仪仫们仭仮仯仰仱仲仳仴仵件价仸仹仺任仼份仾仿",
     "侀侁侂侃侄侅來侇侈侉侊例侌侍侎侏侐侑侒侓侔侕侖侗侘侙侚供侜依侞侟侠価侢侣侤侥侦侧侨侩侪侫侬侭侮侯侰侱侲侳侴侵侶侷侸侹侺侻侼侽侾便俀俁係促俄俅俆俇俈俉俊俋俌俍俎俏俐俑俒俓俔俕俖俗俘俙俚俛俜保俞俟俠信俢俣俤俥俦俧俨俩俪俫俬俭修俯俰俱俲俳俴俵俶俷俸俹俺俻俼俽俾俿",
     "傀傁傂傃傄傅傆傇傈傉傊傋傌傍傎傏傐傑傒傓傔傕傖傗傘備傚傛傜傝傞傟傠傡傢傣傤傥傦傧储傩傪傫催傭傮傯傰傱傲傳傴債傶傷傸傹傺傻傼傽傾傿僀僁僂僃僄僅僆僇僈僉僊僋僌働僎像僐僑僒僓僔僕僖僗僘僙僚僛僜僝僞僟僠僡僢僣僤僥僦僧僨僩僪僫僬僭僮僯僰僱僲僳僴僵僶僷僸價僺僻僼僽僾僿",
     "冀冁冂冃冄内円冇冈冉冊冋册再冎冏冐冑冒冓冔冕冖冗冘写冚军农冝冞冟冠冡冢冣冤冥冦冧冨冩冪冫冬冭冮冯冰冱冲决冴况冶冷冸冹冺冻冼冽冾冿净凁凂凃凄凅准凇凈凉凊凋凌凍凎减凐凑凒凓凔凕凖凗凘凙凚凛凜凝凞凟几凡凢凣凤凥処凧凨凩凪凫凬凭凮凯凰凱凲凳凴凵凶凷凸凹出击凼函凾凿",
     "劀劁劂劃劄劅劆劇劈劉劊劋劌劍劎劏劐劑劒劓劔劕劖劗劘劙劚力劜劝办功加务劢劣劤劥劦劧动助努劫劬劭劮劯劰励劲劳労劵劶劷劸効劺劻劼劽劾势勀勁勂勃勄勅勆勇勈勉勊勋勌勍勎勏勐勑勒勓勔動勖勗勘務勚勛勜勝勞募勠勡勢勣勤勥勦勧勨勩勪勫勬勭勮勯勰勱勲勳勴勵勶勷勸勹勺勻勼勽勾勿",
     "厀厁厂厃厄厅历厇厈厉厊压厌厍厎厏厐厑厒厓厔厕厖厗厘厙厚厛厜厝厞原厠厡厢厣厤厥厦厧厨厩厪厫厬厭厮厯厰厱厲厳厴厵厶厷厸厹厺去厼厽厾县叀叁参參叄叅叆叇又叉及友双反収叏叐发叒叓叔叕取受变叙叚叛叜叝叞叟叠叡叢口古句另叧叨叩只叫召叭叮可台叱史右叴叵叶号司叹叺叻叼叽叾叿",
     "咀咁咂咃咄咅咆咇咈咉咊咋和咍咎咏咐咑咒咓咔咕咖咗咘咙咚咛咜咝咞咟咠咡咢咣咤咥咦咧咨咩咪咫咬咭咮咯咰咱咲咳咴咵咶咷咸咹咺咻咼咽咾咿哀品哂哃哄哅哆哇哈哉哊哋哌响哎哏哐哑哒哓哔哕哖哗哘哙哚哛哜哝哞哟哠員哢哣哤哥哦哧哨哩哪哫哬哭哮哯哰哱哲哳哴哵哶哷哸哹哺哻哼哽哾哿",
     "喀喁喂喃善喅喆喇喈喉喊喋喌喍喎喏喐喑喒喓喔喕喖喗喘喙喚喛喜喝喞喟喠喡喢喣喤喥喦喧喨喩喪喫喬喭單喯喰喱喲喳喴喵営喷喸喹喺喻喼喽喾喿嗀嗁嗂嗃嗄嗅嗆嗇嗈嗉嗊嗋嗌嗍嗎嗏嗐嗑嗒嗓嗔嗕嗖嗗嗘嗙嗚嗛嗜嗝嗞嗟嗠嗡嗢嗣嗤嗥嗦嗧嗨嗩嗪嗫嗬嗭嗮嗯嗰嗱嗲嗳嗴嗵嗶嗷嗸嗹嗺嗻嗼嗽嗾嗿",
     "嚀嚁嚂嚃嚄嚅嚆嚇嚈嚉嚊嚋嚌嚍嚎嚏嚐嚑嚒嚓嚔嚕嚖嚗嚘嚙嚚嚛嚜嚝嚞嚟嚠嚡嚢嚣嚤嚥嚦嚧嚨嚩嚪嚫嚬嚭嚮嚯嚰嚱嚲嚳嚴嚵嚶嚷嚸嚹嚺嚻嚼嚽嚾嚿囀囁囂囃囄囅囆囇囈囉囊囋囌囍囎囏囐囑囒囓囔囕囖囗囘囙囚四囜囝回囟因囡团団囤囥囦囧囨囩囪囫囬园囮囯困囱囲図围囵囶囷囸囹固囻囼国图囿",
     "垀垁垂垃垄垅垆垇垈垉垊型垌垍垎垏垐垑垒垓垔垕垖垗垘垙垚垛垜垝垞垟垠垡垢垣垤垥垦垧垨垩垪垫垬垭垮垯垰垱垲垳垴垵垶垷垸垹垺垻垼垽垾垿埀埁埂埃埄埅埆埇埈埉埊埋埌埍城埏埐埑埒埓埔埕埖埗埘埙埚埛埜埝埞域埠埡埢埣埤埥埦埧埨埩埪埫埬埭埮埯埰埱埲埳埴埵埶執埸培基埻埼埽埾埿",
     "墀墁墂境墄墅墆墇墈墉墊墋墌墍墎墏墐墑墒墓墔墕墖増墘墙墚墛墜墝增墟墠墡墢墣墤墥墦墧墨墩墪墫墬墭墮墯墰墱墲墳墴墵墶墷墸墹墺墻墼墽墾墿壀壁壂壃壄壅壆壇壈壉壊壋壌壍壎壏壐壑壒壓壔壕壖壗壘壙壚壛壜壝壞壟壠壡壢壣壤壥壦壧壨壩壪士壬壭壮壯声壱売壳壴壵壶壷壸壹壺壻壼壽壾壿",
     "妀妁如妃妄妅妆妇妈妉妊妋妌妍妎妏妐妑妒妓妔妕妖妗妘妙妚妛妜妝妞妟妠妡妢妣妤妥妦妧妨妩妪妫妬妭妮妯妰妱妲妳妴妵妶妷妸妹妺妻妼妽妾妿姀姁姂姃姄姅姆姇姈姉姊始姌姍姎姏姐姑姒姓委姕姖姗姘姙姚姛姜姝姞姟姠姡姢姣姤姥姦姧姨姩姪姫姬姭姮姯姰姱姲姳姴姵姶姷姸姹姺姻姼姽姾姿",
     "媀媁媂媃媄媅媆媇媈媉媊媋媌媍媎媏媐媑媒媓媔媕媖媗媘媙媚媛媜媝媞媟媠媡媢媣媤媥媦媧媨媩媪媫媬媭媮媯媰媱媲媳媴媵媶媷媸媹媺媻媼媽媾媿嫀嫁嫂嫃嫄嫅嫆嫇嫈嫉嫊嫋嫌嫍嫎嫏嫐嫑嫒嫓嫔嫕嫖嫗嫘嫙嫚嫛嫜嫝嫞嫟嫠嫡嫢嫣嫤嫥嫦嫧嫨嫩嫪嫫嫬嫭嫮嫯嫰嫱嫲嫳嫴嫵嫶嫷嫸嫹嫺嫻嫼嫽嫾嫿",
     "宀宁宂它宄宅宆宇守安宊宋完宍宎宏宐宑宒宓宔宕宖宗官宙定宛宜宝实実宠审客宣室宥宦宧宨宩宪宫宬宭宮宯宰宱宲害宴宵家宷宸容宺宻宼宽宾宿寀寁寂寃寄寅密寇寈寉寊寋富寍寎寏寐寑寒寓寔寕寖寗寘寙寚寛寜寝寞察寠寡寢寣寤寥實寧寨審寪寫寬寭寮寯寰寱寲寳寴寵寶寷寸对寺寻导寽対寿",
     "岀岁岂岃岄岅岆岇岈岉岊岋岌岍岎岏岐岑岒岓岔岕岖岗岘岙岚岛岜岝岞岟岠岡岢岣岤岥岦岧岨岩岪岫岬岭岮岯岰岱岲岳岴岵岶岷岸岹岺岻岼岽岾岿峀峁峂峃峄峅峆峇峈峉峊峋峌峍峎峏峐峑峒峓峔峕峖峗峘峙峚峛峜峝峞峟峠峡峢峣峤峥峦峧峨峩峪峫峬峭峮峯峰峱峲峳峴峵島峷峸峹峺峻峼峽峾峿",
     "嶀嶁嶂嶃嶄嶅嶆嶇嶈嶉嶊嶋嶌嶍嶎嶏嶐嶑嶒嶓嶔嶕嶖嶗嶘嶙嶚嶛嶜嶝嶞嶟嶠嶡嶢嶣嶤嶥嶦嶧嶨嶩嶪嶫嶬嶭嶮嶯嶰嶱嶲嶳嶴嶵嶶嶷嶸嶹嶺嶻嶼嶽嶾嶿巀巁巂巃巄巅巆巇巈巉巊巋巌巍巎巏巐巑巒巓巔巕巖巗巘巙巚巛巜川州巟巠巡巢巣巤工左巧巨巩巪巫巬巭差巯巰己已巳巴巵巶巷巸巹巺巻巼巽巾巿",
     "庀庁庂広庄庅庆庇庈庉床庋庌庍庎序庐庑庒库应底庖店庘庙庚庛府庝庞废庠庡庢庣庤庥度座庨庩庪庫庬庭庮庯庰庱庲庳庴庵庶康庸庹庺庻庼庽庾庿廀廁廂廃廄廅廆廇廈廉廊廋廌廍廎廏廐廑廒廓廔廕廖廗廘廙廚廛廜廝廞廟廠廡廢廣廤廥廦廧廨廩廪廫廬廭廮廯廰廱廲廳廴廵延廷廸廹建廻廼廽廾廿",
     "往征徂徃径待徆徇很徉徊律後徍徎徏徐徑徒従徔徕徖得徘徙徚徛徜徝從徟徠御徢徣徤徥徦徧徨復循徫徬徭微徯徰徱徲徳徴徵徶德徸徹徺徻徼徽徾徿忀忁忂心忄必忆忇忈忉忊忋忌忍忎忏忐忑忒忓忔忕忖志忘忙忚忛応忝忞忟忠忡忢忣忤忥忦忧忨忩忪快忬忭忮忯忰忱忲忳忴念忶忷忸忹忺忻忼忽忾忿",
     "悀悁悂悃悄悅悆悇悈悉悊悋悌悍悎悏悐悑悒悓悔悕悖悗悘悙悚悛悜悝悞悟悠悡悢患悤悥悦悧您悩悪悫悬悭悮悯悰悱悲悳悴悵悶悷悸悹悺悻悼悽悾悿惀惁惂惃惄情惆惇惈惉惊惋惌惍惎惏惐惑惒惓惔惕惖惗惘惙惚惛惜惝惞惟惠惡惢惣惤惥惦惧惨惩惪惫惬惭惮惯惰惱惲想惴惵惶惷惸惹惺惻惼惽惾惿",
     "憀憁憂憃憄憅憆憇憈憉憊憋憌憍憎憏憐憑憒憓憔憕憖憗憘憙憚憛憜憝憞憟憠憡憢憣憤憥憦憧憨憩憪憫憬憭憮憯憰憱憲憳憴憵憶憷憸憹憺憻憼憽憾憿懀懁懂懃懄懅懆懇懈應懊懋懌懍懎懏懐懑懒懓懔懕懖懗懘懙懚懛懜懝懞懟懠懡懢懣懤懥懦懧懨懩懪懫懬懭懮懯懰懱懲懳懴懵懶懷懸懹懺懻懼懽懾懿",
     "技抁抂抃抄抅抆抇抈抉把抋抌抍抎抏抐抑抒抓抔投抖抗折抙抚抛抜抝択抟抠抡抢抣护报抦抧抨抩抪披抬抭抮抯抰抱抲抳抴抵抶抷抸抹抺抻押抽抾抿拀拁拂拃拄担拆拇拈拉拊拋拌拍拎拏拐拑拒拓拔拕拖拗拘拙拚招拜拝拞拟拠拡拢拣拤拥拦拧拨择拪拫括拭拮拯拰拱拲拳拴拵拶拷拸拹拺拻拼拽拾拿",
     "掀掁掂掃掄掅掆掇授掉掊掋掌掍掎掏掐掑排掓掔掕掖掗掘掙掚掛掜掝掞掟掠採探掣掤接掦控推掩措掫掬掭掮掯掰掱掲掳掴掵掶掷掸掹掺掻掼掽掾掿揀揁揂揃揄揅揆揇揈揉揊揋揌揍揎描提揑插揓揔揕揖揗揘揙揚換揜揝揞揟揠握揢揣揤揥揦揧揨揩揪揫揬揭揮揯揰揱揲揳援揵揶揷揸揹揺揻揼揽揾揿",
     "撀撁撂撃撄撅撆撇撈撉撊撋撌撍撎撏撐撑撒撓撔撕撖撗撘撙撚撛撜撝撞撟撠撡撢撣撤撥撦撧撨撩撪撫撬播撮撯撰撱撲撳撴撵撶撷撸撹撺撻撼撽撾撿擀擁擂擃擄擅擆擇擈擉擊擋擌操擎擏擐擑擒擓擔擕擖擗擘擙據擛擜擝擞擟擠擡擢擣擤擥擦擧擨擩擪擫擬擭擮擯擰擱擲擳擴擵擶擷擸擹擺擻擼擽擾擿",
     "斀斁斂斃斄斅斆文斈斉斊斋斌斍斎斏斐斑斒斓斔斕斖斗斘料斚斛斜斝斞斟斠斡斢斣斤斥斦斧斨斩斪斫斬断斮斯新斱斲斳斴斵斶斷斸方斺斻於施斾斿旀旁旂旃旄旅旆旇旈旉旊旋旌旍旎族旐旑旒旓旔旕旖旗旘旙旚旛旜旝旞旟无旡既旣旤日旦旧旨早旪旫旬旭旮旯旰旱旲旳旴旵时旷旸旹旺旻旼旽旾旿",
     "暀暁暂暃暄暅暆暇暈暉暊暋暌暍暎暏暐暑暒暓暔暕暖暗暘暙暚暛暜暝暞暟暠暡暢暣暤暥暦暧暨暩暪暫暬暭暮暯暰暱暲暳暴暵暶暷暸暹暺暻暼暽暾暿曀曁曂曃曄曅曆曇曈曉曊曋曌曍曎曏曐曑曒曓曔曕曖曗曘曙曚曛曜曝曞曟曠曡曢曣曤曥曦曧曨曩曪曫曬曭曮曯曰曱曲曳更曵曶曷書曹曺曻曼曽曾替",
     "枀极枂枃构枅枆枇枈枉枊枋枌枍枎枏析枑枒枓枔枕枖林枘枙枚枛果枝枞枟枠枡枢枣枤枥枦枧枨枩枪枫枬枭枮枯枰枱枲枳枴枵架枷枸枹枺枻枼枽枾枿柀柁柂柃柄柅柆柇柈柉柊柋柌柍柎柏某柑柒染柔柕柖柗柘柙柚柛柜柝柞柟柠柡柢柣柤查柦柧柨柩柪柫柬柭柮柯柰柱柲柳柴柵柶柷柸柹柺査柼柽柾柿",
     "梀梁梂梃梄梅梆梇梈梉梊梋梌梍梎梏梐梑梒梓梔梕梖梗梘梙梚梛梜條梞梟梠梡梢梣梤梥梦梧梨梩梪梫梬梭梮梯械梱梲梳梴梵梶梷梸梹梺梻梼梽梾梿检棁棂棃棄棅棆棇棈棉棊棋棌棍棎棏棐棑棒棓棔棕棖棗棘棙棚棛棜棝棞棟棠棡棢棣棤棥棦棧棨棩棪棫棬棭森棯棰棱棲棳棴棵棶棷棸棹棺棻棼棽棾棿",
     "榀榁概榃榄榅榆榇榈榉榊榋榌榍榎榏榐榑榒榓榔榕榖榗榘榙榚榛榜榝榞榟榠榡榢榣榤榥榦榧榨榩榪榫榬榭榮榯榰榱榲榳榴榵榶榷榸榹榺榻榼榽榾榿槀槁槂槃槄槅槆槇槈槉槊構槌槍槎槏槐槑槒槓槔槕槖槗様槙槚槛槜槝槞槟槠槡槢槣槤槥槦槧槨槩槪槫槬槭槮槯槰槱槲槳槴槵槶槷槸槹槺槻槼槽槾槿",
     "檀檁檂檃檄檅檆檇檈檉檊檋檌檍檎檏檐檑檒檓檔檕檖檗檘檙檚檛檜檝檞檟檠檡檢檣檤檥檦檧檨檩檪檫檬檭檮檯檰檱檲檳檴檵檶檷檸檹檺檻檼檽檾檿櫀櫁櫂櫃櫄櫅櫆櫇櫈櫉櫊櫋櫌櫍櫎櫏櫐櫑櫒櫓櫔櫕櫖櫗櫘櫙櫚櫛櫜櫝櫞櫟櫠櫡櫢櫣櫤櫥櫦櫧櫨櫩櫪櫫櫬櫭櫮櫯櫰櫱櫲櫳櫴櫵櫶櫷櫸櫹櫺櫻櫼櫽櫾櫿",
     "殀殁殂殃殄殅殆殇殈殉殊残殌殍殎殏殐殑殒殓殔殕殖殗殘殙殚殛殜殝殞殟殠殡殢殣殤殥殦殧殨殩殪殫殬殭殮殯殰殱殲殳殴段殶殷殸殹殺殻殼殽殾殿毀毁毂毃毄毅毆毇毈毉毊毋毌母毎每毐毑毒毓比毕毖毗毘毙毚毛毜毝毞毟毠毡毢毣毤毥毦毧毨毩毪毫毬毭毮毯毰毱毲毳毴毵毶毷毸毹毺毻毼毽毾毿",
     "沀沁沂沃沄沅沆沇沈沉沊沋沌沍沎沏沐沑沒沓沔沕沖沗沘沙沚沛沜沝沞沟沠没沢沣沤沥沦沧沨沩沪沫沬沭沮沯沰沱沲河沴沵沶沷沸油沺治沼沽沾沿泀況泂泃泄泅泆泇泈泉泊泋泌泍泎泏泐泑泒泓泔法泖泗泘泙泚泛泜泝泞泟泠泡波泣泤泥泦泧注泩泪泫泬泭泮泯泰泱泲泳泴泵泶泷泸泹泺泻泼泽泾泿",
     "涀涁涂涃涄涅涆涇消涉涊涋涌涍涎涏涐涑涒涓涔涕涖涗涘涙涚涛涜涝涞涟涠涡涢涣涤涥润涧涨涩涪涫涬涭涮涯涰涱液涳涴涵涶涷涸涹涺涻涼涽涾涿淀淁淂淃淄淅淆淇淈淉淊淋淌淍淎淏淐淑淒淓淔淕淖淗淘淙淚淛淜淝淞淟淠淡淢淣淤淥淦淧淨淩淪淫淬淭淮淯淰深淲淳淴淵淶混淸淹淺添淼淽淾淿",
     "満溁溂溃溄溅溆溇溈溉溊溋溌溍溎溏源溑溒溓溔溕準溗溘溙溚溛溜溝溞溟溠溡溢溣溤溥溦溧溨溩溪溫溬溭溮溯溰溱溲溳溴溵溶溷溸溹溺溻溼溽溾溿滀滁滂滃滄滅滆滇滈滉滊滋滌滍滎滏滐滑滒滓滔滕滖滗滘滙滚滛滜滝滞滟滠满滢滣滤滥滦滧滨滩滪滫滬滭滮滯滰滱滲滳滴滵滶滷滸滹滺滻滼滽滾滿",
     "澀澁澂澃澄澅澆澇澈澉澊澋澌澍澎澏澐澑澒澓澔澕澖澗澘澙澚澛澜澝澞澟澠澡澢澣澤澥澦澧澨澩澪澫澬澭澮澯澰澱澲澳澴澵澶澷澸澹澺澻澼澽澾澿激濁濂濃濄濅濆濇濈濉濊濋濌濍濎濏濐濑濒濓濔濕濖濗濘濙濚濛濜濝濞濟濠濡濢濣濤濥濦濧濨濩濪濫濬濭濮濯濰濱濲濳濴濵濶濷濸濹濺濻濼濽濾濿",
     "炀炁炂炃炄炅炆炇炈炉炊炋炌炍炎炏炐炑炒炓炔炕炖炗炘炙炚炛炜炝炞炟炠炡炢炣炤炥炦炧炨炩炪炫炬炭炮炯炰炱炲炳炴炵炶炷炸点為炻炼炽炾炿烀烁烂烃烄烅烆烇烈烉烊烋烌烍烎烏烐烑烒烓烔烕烖烗烘烙烚烛烜烝烞烟烠烡烢烣烤烥烦烧烨烩烪烫烬热烮烯烰烱烲烳烴烵烶烷烸烹烺烻烼烽烾烿",
     "熀熁熂熃熄熅熆熇熈熉熊熋熌熍熎熏熐熑熒熓熔熕熖熗熘熙熚熛熜熝熞熟熠熡熢熣熤熥熦熧熨熩熪熫熬熭熮熯熰熱熲熳熴熵熶熷熸熹熺熻熼熽熾熿燀燁燂燃燄燅燆燇燈燉燊燋燌燍燎燏燐燑燒燓燔燕燖燗燘燙燚燛燜燝燞營燠燡燢燣燤燥燦燧燨燩燪燫燬燭燮燯燰燱燲燳燴燵燶燷燸燹燺燻燼燽燾燿",
     "犀犁犂犃犄犅犆犇犈犉犊犋犌犍犎犏犐犑犒犓犔犕犖犗犘犙犚犛犜犝犞犟犠犡犢犣犤犥犦犧犨犩犪犫犬犭犮犯犰犱犲犳犴犵状犷犸犹犺犻犼犽犾犿狀狁狂狃狄狅狆狇狈狉狊狋狌狍狎狏狐狑狒狓狔狕狖狗狘狙狚狛狜狝狞狟狠狡狢狣狤狥狦狧狨狩狪狫独狭狮狯狰狱狲狳狴狵狶狷狸狹狺狻狼狽狾狿",
     "玀玁玂玃玄玅玆率玈玉玊王玌玍玎玏玐玑玒玓玔玕玖玗玘玙玚玛玜玝玞玟玠玡玢玣玤玥玦玧玨玩玪玫玬玭玮环现玱玲玳玴玵玶玷玸玹玺玻玼玽玾玿珀珁珂珃珄珅珆珇珈珉珊珋珌珍珎珏珐珑珒珓珔珕珖珗珘珙珚珛珜珝珞珟珠珡珢珣珤珥珦珧珨珩珪珫珬班珮珯珰珱珲珳珴珵珶珷珸珹珺珻珼珽現珿",
     "璀璁璂璃璄璅璆璇璈璉璊璋璌璍璎璏璐璑璒璓璔璕璖璗璘璙璚璛璜璝璞璟璠璡璢璣璤璥璦璧璨璩璪璫璬璭璮璯環璱璲璳璴璵璶璷璸璹璺璻璼璽璾璿瓀瓁瓂瓃瓄瓅瓆瓇瓈瓉瓊瓋瓌瓍瓎瓏瓐瓑瓒瓓瓔瓕瓖瓗瓘瓙瓚瓛瓜瓝瓞瓟瓠瓡瓢瓣瓤瓥瓦瓧瓨瓩瓪瓫瓬瓭瓮瓯瓰瓱瓲瓳瓴瓵瓶瓷瓸瓹瓺瓻瓼瓽瓾瓿",
     "疀疁疂疃疄疅疆疇疈疉疊疋疌疍疎疏疐疑疒疓疔疕疖疗疘疙疚疛疜疝疞疟疠疡疢疣疤疥疦疧疨疩疪疫疬疭疮疯疰疱疲疳疴疵疶疷疸疹疺疻疼疽疾疿痀痁痂痃痄病痆症痈痉痊痋痌痍痎痏痐痑痒痓痔痕痖痗痘痙痚痛痜痝痞痟痠痡痢痣痤痥痦痧痨痩痪痫痬痭痮痯痰痱痲痳痴痵痶痷痸痹痺痻痼痽痾痿",
     "皀皁皂皃的皅皆皇皈皉皊皋皌皍皎皏皐皑皒皓皔皕皖皗皘皙皚皛皜皝皞皟皠皡皢皣皤皥皦皧皨皩皪皫皬皭皮皯皰皱皲皳皴皵皶皷皸皹皺皻皼皽皾皿盀盁盂盃盄盅盆盇盈盉益盋盌盍盎盏盐监盒盓盔盕盖盗盘盙盚盛盜盝盞盟盠盡盢監盤盥盦盧盨盩盪盫盬盭目盯盰盱盲盳直盵盶盷相盹盺盻盼盽盾盿",
     "瞀瞁瞂瞃瞄瞅瞆瞇瞈瞉瞊瞋瞌瞍瞎瞏瞐瞑瞒瞓瞔瞕瞖瞗瞘瞙瞚瞛瞜瞝瞞瞟瞠瞡瞢瞣瞤瞥瞦瞧瞨瞩瞪瞫瞬瞭瞮瞯瞰瞱瞲瞳瞴瞵瞶瞷瞸瞹瞺瞻瞼瞽瞾瞿矀矁矂矃矄矅矆矇矈矉矊矋矌矍矎矏矐矑矒矓矔矕矖矗矘矙矚矛矜矝矞矟矠矡矢矣矤知矦矧矨矩矪矫矬短矮矯矰矱矲石矴矵矶矷矸矹矺矻矼矽矾矿",
     "碀碁碂碃碄碅碆碇碈碉碊碋碌碍碎碏碐碑碒碓碔碕碖碗碘碙碚碛碜碝碞碟碠碡碢碣碤碥碦碧碨碩碪碫碬碭碮碯碰碱碲碳碴碵碶碷碸碹確碻碼碽碾碿磀磁磂磃磄磅磆磇磈磉磊磋磌磍磎磏磐磑磒磓磔磕磖磗磘磙磚磛磜磝磞磟磠磡磢磣磤磥磦磧磨磩磪磫磬磭磮磯磰磱磲磳磴磵磶磷磸磹磺磻磼磽磾磿",
     "禀禁禂禃禄禅禆禇禈禉禊禋禌禍禎福禐禑禒禓禔禕禖禗禘禙禚禛禜禝禞禟禠禡禢禣禤禥禦禧禨禩禪禫禬禭禮禯禰禱禲禳禴禵禶禷禸禹禺离禼禽禾禿秀私秂秃秄秅秆秇秈秉秊秋秌种秎秏秐科秒秓秔秕秖秗秘秙秚秛秜秝秞租秠秡秢秣秤秥秦秧秨秩秪秫秬秭秮积称秱秲秳秴秵秶秷秸秹秺移秼秽秾秿",
     "窀突窂窃窄窅窆窇窈窉窊窋窌窍窎窏窐窑窒窓窔窕窖窗窘窙窚窛窜窝窞窟窠窡窢窣窤窥窦窧窨窩窪窫窬窭窮窯窰窱窲窳窴窵窶窷窸窹窺窻窼窽窾窿竀竁竂竃竄竅竆竇竈竉竊立竌竍竎竏竐竑竒竓竔竕竖竗竘站竚竛竜竝竞竟章竡竢竣竤童竦竧竨竩竪竫竬竭竮端竰竱竲竳竴竵競竷竸竹竺竻竼竽竾竿",
     "简箁箂箃箄箅箆箇箈箉箊箋箌箍箎箏箐箑箒箓箔箕箖算箘箙箚箛箜箝箞箟箠管箢箣箤箥箦箧箨箩箪箫箬箭箮箯箰箱箲箳箴箵箶箷箸箹箺箻箼箽箾箿節篁篂篃範篅篆篇篈築篊篋篌篍篎篏篐篑篒篓篔篕篖篗篘篙篚篛篜篝篞篟篠篡篢篣篤篥篦篧篨篩篪篫篬篭篮篯篰篱篲篳篴篵篶篷篸篹篺篻篼篽篾篿",
     "粀粁粂粃粄粅粆粇粈粉粊粋粌粍粎粏粐粑粒粓粔粕粖粗粘粙粚粛粜粝粞粟粠粡粢粣粤粥粦粧粨粩粪粫粬粭粮粯粰粱粲粳粴粵粶粷粸粹粺粻粼粽精粿糀糁糂糃糄糅糆糇糈糉糊糋糌糍糎糏糐糑糒糓糔糕糖糗糘糙糚糛糜糝糞糟糠糡糢糣糤糥糦糧糨糩糪糫糬糭糮糯糰糱糲糳糴糵糶糷糸糹糺系糼糽糾糿",
     "綀綁綂綃綄綅綆綇綈綉綊綋綌綍綎綏綐綑綒經綔綕綖綗綘継続綛綜綝綞綟綠綡綢綣綤綥綦綧綨綩綪綫綬維綮綯綰綱網綳綴綵綶綷綸綹綺綻綼綽綾綿緀緁緂緃緄緅緆緇緈緉緊緋緌緍緎総緐緑緒緓緔緕緖緗緘緙線緛緜緝緞緟締緡緢緣緤緥緦緧編緩緪緫緬緭緮緯緰緱緲緳練緵緶緷緸緹緺緻緼緽緾緿",
     "纀纁纂纃纄纅纆纇纈纉纊纋續纍纎纏纐纑纒纓纔纕纖纗纘纙纚纛纜纝纞纟纠纡红纣纤纥约级纨纩纪纫纬纭纮纯纰纱纲纳纴纵纶纷纸纹纺纻纼纽纾线绀绁绂练组绅细织终绉绊绋绌绍绎经绐绑绒结绔绕绖绗绘给绚绛络绝绞统绠绡绢绣绤绥绦继绨绩绪绫绬续绮绯绰绱绲绳维绵绶绷绸绹绺绻综绽绾绿",
     "羀羁羂羃羄羅羆羇羈羉羊羋羌羍美羏羐羑羒羓羔羕羖羗羘羙羚羛羜羝羞羟羠羡羢羣群羥羦羧羨義羪羫羬羭羮羯羰羱羲羳羴羵羶羷羸羹羺羻羼羽羾羿翀翁翂翃翄翅翆翇翈翉翊翋翌翍翎翏翐翑習翓翔翕翖翗翘翙翚翛翜翝翞翟翠翡翢翣翤翥翦翧翨翩翪翫翬翭翮翯翰翱翲翳翴翵翶翷翸翹翺翻翼翽翾翿",
     "肀肁肂肃肄肅肆肇肈肉肊肋肌肍肎肏肐肑肒肓肔肕肖肗肘肙肚肛肜肝肞肟肠股肢肣肤肥肦肧肨肩肪肫肬肭肮肯肰肱育肳肴肵肶肷肸肹肺肻肼肽肾肿胀胁胂胃胄胅胆胇胈胉胊胋背胍胎胏胐胑胒胓胔胕胖胗胘胙胚胛胜胝胞胟胠胡胢胣胤胥胦胧胨胩胪胫胬胭胮胯胰胱胲胳胴胵胶胷胸胹胺胻胼能胾胿",
     "膀膁膂膃膄膅膆膇膈膉膊膋膌膍膎膏膐膑膒膓膔膕膖膗膘膙膚膛膜膝膞膟膠膡膢膣膤膥膦膧膨膩膪膫膬膭膮膯膰膱膲膳膴膵膶膷膸膹膺膻膼膽膾膿臀臁臂臃臄臅臆臇臈臉臊臋臌臍臎臏臐臑臒臓臔臕臖臗臘臙臚臛臜臝臞臟臠臡臢臣臤臥臦臧臨臩自臫臬臭臮臯臰臱臲至致臵臶臷臸臹臺臻臼臽臾臿",
     "芀芁节芃芄芅芆芇芈芉芊芋芌芍芎芏芐芑芒芓芔芕芖芗芘芙芚芛芜芝芞芟芠芡芢芣芤芥芦芧芨芩芪芫芬芭芮芯芰花芲芳芴芵芶芷芸芹芺芻芼芽芾芿苀苁苂苃苄苅苆苇苈苉苊苋苌苍苎苏苐苑苒苓苔苕苖苗苘苙苚苛苜苝苞苟苠苡苢苣苤若苦苧苨苩苪苫苬苭苮苯苰英苲苳苴苵苶苷苸苹苺苻苼苽苾苿",
     "莀莁莂莃莄莅莆莇莈莉莊莋莌莍莎莏莐莑莒莓莔莕莖莗莘莙莚莛莜莝莞莟莠莡莢莣莤莥莦莧莨莩莪莫莬莭莮莯莰莱莲莳莴莵莶获莸莹莺莻莼莽莾莿菀菁菂菃菄菅菆菇菈菉菊菋菌菍菎菏菐菑菒菓菔菕菖菗菘菙菚菛菜菝菞菟菠菡菢菣菤菥菦菧菨菩菪菫菬菭菮華菰菱菲菳菴菵菶菷菸菹菺菻菼菽菾菿",
     "蒀蒁蒂蒃蒄蒅蒆蒇蒈蒉蒊蒋蒌蒍蒎蒏蒐蒑蒒蒓蒔蒕蒖蒗蒘蒙蒚蒛蒜蒝蒞蒟蒠蒡蒢蒣蒤蒥蒦蒧蒨蒩蒪蒫蒬蒭蒮蒯蒰蒱蒲蒳蒴蒵蒶蒷蒸蒹蒺蒻蒼蒽蒾蒿蓀蓁蓂蓃蓄蓅蓆蓇蓈蓉蓊蓋蓌蓍蓎蓏蓐蓑蓒蓓蓔蓕蓖蓗蓘蓙蓚蓛蓜蓝蓞蓟蓠蓡蓢蓣蓤蓥蓦蓧蓨蓩蓪蓫蓬蓭蓮蓯蓰蓱蓲蓳蓴蓵蓶蓷蓸蓹蓺蓻蓼蓽蓾蓿",
     "薀薁薂薃薄薅薆薇薈薉薊薋薌薍薎薏薐薑薒薓薔薕薖薗薘薙薚薛薜薝薞薟薠薡薢薣薤薥薦薧薨薩薪薫薬薭薮薯薰薱薲薳薴薵薶薷薸薹薺薻薼薽薾薿藀藁藂藃藄藅藆藇藈藉藊藋藌藍藎藏藐藑藒藓藔藕藖藗藘藙藚藛藜藝藞藟藠藡藢藣藤藥藦藧藨藩藪藫藬藭藮藯藰藱藲藳藴藵藶藷藸藹藺藻藼藽藾藿",
     "蚀蚁蚂蚃蚄蚅蚆蚇蚈蚉蚊蚋蚌蚍蚎蚏蚐蚑蚒蚓蚔蚕蚖蚗蚘蚙蚚蚛蚜蚝蚞蚟蚠蚡蚢蚣蚤蚥蚦蚧蚨蚩蚪蚫蚬蚭蚮蚯蚰蚱蚲蚳蚴蚵蚶蚷蚸蚹蚺蚻蚼蚽蚾蚿蛀蛁蛂蛃蛄蛅蛆蛇蛈蛉蛊蛋蛌蛍蛎蛏蛐蛑蛒蛓蛔蛕蛖蛗蛘蛙蛚蛛蛜蛝蛞蛟蛠蛡蛢蛣蛤蛥蛦蛧蛨蛩蛪蛫蛬蛭蛮蛯蛰蛱蛲蛳蛴蛵蛶蛷蛸蛹蛺蛻蛼蛽蛾蛿",
     "螀螁螂螃螄螅螆螇螈螉螊螋螌融螎螏螐螑螒螓螔螕螖螗螘螙螚螛螜螝螞螟螠螡螢螣螤螥螦螧螨螩螪螫螬螭螮螯螰螱螲螳螴螵螶螷螸螹螺螻螼螽螾螿蟀蟁蟂蟃蟄蟅蟆蟇蟈蟉蟊蟋蟌蟍蟎蟏蟐蟑蟒蟓蟔蟕蟖蟗蟘蟙蟚蟛蟜蟝蟞蟟蟠蟡蟢蟣蟤蟥蟦蟧蟨蟩蟪蟫蟬蟭蟮蟯蟰蟱蟲蟳蟴蟵蟶蟷蟸蟹蟺蟻蟼蟽蟾蟿",
     "袀袁袂袃袄袅袆袇袈袉袊袋袌袍袎袏袐袑袒袓袔袕袖袗袘袙袚袛袜袝袞袟袠袡袢袣袤袥袦袧袨袩袪被袬袭袮袯袰袱袲袳袴袵袶袷袸袹袺袻袼袽袾袿裀裁裂裃裄装裆裇裈裉裊裋裌裍裎裏裐裑裒裓裔裕裖裗裘裙裚裛補裝裞裟裠裡裢裣裤裥裦裧裨裩裪裫裬裭裮裯裰裱裲裳裴裵裶裷裸裹裺裻裼製裾裿",
     "覀要覂覃覄覅覆覇覈覉覊見覌覍覎規覐覑覒覓覔覕視覗覘覙覚覛覜覝覞覟覠覡覢覣覤覥覦覧覨覩親覫覬覭覮覯覰覱覲観覴覵覶覷覸覹覺覻覼覽覾覿觀见观觃规觅视觇览觉觊觋觌觍觎觏觐觑角觓觔觕觖觗觘觙觚觛觜觝觞觟觠觡觢解觤觥触觧觨觩觪觫觬觭觮觯觰觱觲觳觴觵觶觷觸觹觺觻觼觽觾觿",
     "誀誁誂誃誄誅誆誇誈誉誊誋誌認誎誏誐誑誒誓誔誕誖誗誘誙誚誛誜誝語誟誠誡誢誣誤誥誦誧誨誩說誫説読誮誯誰誱課誳誴誵誶誷誸誹誺誻誼誽誾調諀諁諂諃諄諅諆談諈諉諊請諌諍諎諏諐諑諒諓諔諕論諗諘諙諚諛諜諝諞諟諠諡諢諣諤諥諦諧諨諩諪諫諬諭諮諯諰諱諲諳諴諵諶諷諸諹諺諻諼諽諾諿",
     "讀讁讂讃讄讅讆讇讈讉變讋讌讍讎讏讐讑讒讓讔讕讖讗讘讙讚讛讜讝讞讟讠计订讣认讥讦讧讨让讪讫讬训议讯记讱讲讳讴讵讶讷许讹论讻讼讽设访诀证诂诃评诅识诇诈诉诊诋诌词诎诏诐译诒诓诔试诖诗诘诙诚诛诜话诞诟诠诡询诣诤该详诧诨诩诪诫诬语诮误诰诱诲诳说诵诶请诸诹诺读诼诽课诿",
     "貀貁貂貃貄貅貆貇貈貉貊貋貌貍貎貏貐貑貒貓貔貕貖貗貘貙貚貛貜貝貞貟負財貢貣貤貥貦貧貨販貪貫責貭貮貯貰貱貲貳貴貵貶買貸貹貺費貼貽貾貿賀賁賂賃賄賅賆資賈賉賊賋賌賍賎賏賐賑賒賓賔賕賖賗賘賙賚賛賜賝賞賟賠賡賢賣賤賥賦賧賨賩質賫賬賭賮賯賰賱賲賳賴賵賶賷賸賹賺賻購賽賾賿",
     "趀趁趂趃趄超趆趇趈趉越趋趌趍趎趏趐趑趒趓趔趕趖趗趘趙趚趛趜趝趞趟趠趡趢趣趤趥趦趧趨趩趪趫趬趭趮趯趰趱趲足趴趵趶趷趸趹趺趻趼趽趾趿跀跁跂跃跄跅跆跇跈跉跊跋跌跍跎跏跐跑跒跓跔跕跖跗跘跙跚跛跜距跞跟跠跡跢跣跤跥跦跧跨跩跪跫跬跭跮路跰跱跲跳跴践跶跷跸跹跺跻跼跽跾跿",
     "躀躁躂躃躄躅躆躇躈躉躊躋躌躍躎躏躐躑躒躓躔躕躖躗躘躙躚躛躜躝躞躟躠躡躢躣躤躥躦躧躨躩躪身躬躭躮躯躰躱躲躳躴躵躶躷躸躹躺躻躼躽躾躿軀軁軂軃軄軅軆軇軈軉車軋軌軍軎軏軐軑軒軓軔軕軖軗軘軙軚軛軜軝軞軟軠軡転軣軤軥軦軧軨軩軪軫軬軭軮軯軰軱軲軳軴軵軶軷軸軹軺軻軼軽軾軿",
     "辀辁辂较辄辅辆辇辈辉辊辋辌辍辎辏辐辑辒输辔辕辖辗辘辙辚辛辜辝辞辟辠辡辢辣辤辥辦辧辨辩辪辫辬辭辮辯辰辱農辳辴辵辶辷辸边辺辻込辽达辿迀迁迂迃迄迅迆过迈迉迊迋迌迍迎迏运近迒迓返迕迖迗还这迚进远违连迟迠迡迢迣迤迥迦迧迨迩迪迫迬迭迮迯述迱迲迳迴迵迶迷迸迹迺迻迼追迾迿",
     "邀邁邂邃還邅邆邇邈邉邊邋邌邍邎邏邐邑邒邓邔邕邖邗邘邙邚邛邜邝邞邟邠邡邢那邤邥邦邧邨邩邪邫邬邭邮邯邰邱邲邳邴邵邶邷邸邹邺邻邼邽邾邿郀郁郂郃郄郅郆郇郈郉郊郋郌郍郎郏郐郑郒郓郔郕郖郗郘郙郚郛郜郝郞郟郠郡郢郣郤郥郦郧部郩郪郫郬郭郮郯郰郱郲郳郴郵郶郷郸郹郺郻郼都郾郿",
     "醀醁醂醃醄醅醆醇醈醉醊醋醌醍醎醏醐醑醒醓醔醕醖醗醘醙醚醛醜醝醞醟醠醡醢醣醤醥醦醧醨醩醪醫醬醭醮醯醰醱醲醳醴醵醶醷醸醹醺醻醼醽醾醿釀釁釂釃釄釅釆采釈釉释釋里重野量釐金釒釓釔釕釖釗釘釙釚釛釜針釞釟釠釡釢釣釤釥釦釧釨釩釪釫釬釭釮釯釰釱釲釳釴釵釶釷釸釹釺釻釼釽釾釿",
     "銀銁銂銃銄銅銆銇銈銉銊銋銌銍銎銏銐銑銒銓銔銕銖銗銘銙銚銛銜銝銞銟銠銡銢銣銤銥銦銧銨銩銪銫銬銭銮銯銰銱銲銳銴銵銶銷銸銹銺銻銼銽銾銿鋀鋁鋂鋃鋄鋅鋆鋇鋈鋉鋊鋋鋌鋍鋎鋏鋐鋑鋒鋓鋔鋕鋖鋗鋘鋙鋚鋛鋜鋝鋞鋟鋠鋡鋢鋣鋤鋥鋦鋧鋨鋩鋪鋫鋬鋭鋮鋯鋰鋱鋲鋳鋴鋵鋶鋷鋸鋹鋺鋻鋼鋽鋾鋿",
     "鎀鎁鎂鎃鎄鎅鎆鎇鎈鎉鎊鎋鎌鎍鎎鎏鎐鎑鎒鎓鎔鎕鎖鎗鎘鎙鎚鎛鎜鎝鎞鎟鎠鎡鎢鎣鎤鎥鎦鎧鎨鎩鎪鎫鎬鎭鎮鎯鎰鎱鎲鎳鎴鎵鎶鎷鎸鎹鎺鎻鎼鎽鎾鎿鏀鏁鏂鏃鏄鏅鏆鏇鏈鏉鏊鏋鏌鏍鏎鏏鏐鏑鏒鏓鏔鏕鏖鏗鏘鏙鏚鏛鏜鏝鏞鏟鏠鏡鏢鏣鏤鏥鏦鏧鏨鏩鏪鏫鏬鏭鏮鏯鏰鏱鏲鏳鏴鏵鏶鏷鏸鏹鏺鏻鏼鏽鏾鏿",
     "钀钁钂钃钄钅钆钇针钉钊钋钌钍钎钏钐钑钒钓钔钕钖钗钘钙钚钛钜钝钞钟钠钡钢钣钤钥钦钧钨钩钪钫钬钭钮钯钰钱钲钳钴钵钶钷钸钹钺钻钼钽钾钿铀铁铂铃铄铅铆铇铈铉铊铋铌铍铎铏铐铑铒铓铔铕铖铗铘铙铚铛铜铝铞铟铠铡铢铣铤铥铦铧铨铩铪铫铬铭铮铯铰铱铲铳铴铵银铷铸铹铺铻铼铽链铿",
     "門閁閂閃閄閅閆閇閈閉閊開閌閍閎閏閐閑閒間閔閕閖閗閘閙閚閛閜閝閞閟閠閡関閣閤閥閦閧閨閩閪閫閬閭閮閯閰閱閲閳閴閵閶閷閸閹閺閻閼閽閾閿闀闁闂闃闄闅闆闇闈闉闊闋闌闍闎闏闐闑闒闓闔闕闖闗闘闙闚闛關闝闞闟闠闡闢闣闤闥闦闧门闩闪闫闬闭问闯闰闱闲闳间闵闶闷闸闹闺闻闼闽闾闿",
     "隀隁隂隃隄隅隆隇隈隉隊隋隌隍階随隐隑隒隓隔隕隖隗隘隙隚際障隝隞隟隠隡隢隣隤隥隦隧隨隩險隫隬隭隮隯隰隱隲隳隴隵隶隷隸隹隺隻隼隽难隿雀雁雂雃雄雅集雇雈雉雊雋雌雍雎雏雐雑雒雓雔雕雖雗雘雙雚雛雜雝雞雟雠雡離難雤雥雦雧雨雩雪雫雬雭雮雯雰雱雲雳雴雵零雷雸雹雺電雼雽雾雿",
     "鞀鞁鞂鞃鞄鞅鞆鞇鞈鞉鞊鞋鞌鞍鞎鞏鞐鞑鞒鞓鞔鞕鞖鞗鞘鞙鞚鞛鞜鞝鞞鞟鞠鞡鞢鞣鞤鞥鞦鞧鞨鞩鞪鞫鞬鞭鞮鞯鞰鞱鞲鞳鞴鞵鞶鞷鞸鞹鞺鞻鞼鞽鞾鞿韀韁韂韃韄韅韆韇韈韉韊韋韌韍韎韏韐韑韒韓韔韕韖韗韘韙韚韛韜韝韞韟韠韡韢韣韤韥韦韧韨韩韪韫韬韭韮韯韰韱韲音韴韵韶韷韸韹韺韻韼韽韾響",
     "颀颁颂颃预颅领颇颈颉颊颋颌颍颎颏颐频颒颓颔颕颖颗题颙颚颛颜额颞颟颠颡颢颣颤颥颦颧風颩颪颫颬颭颮颯颰颱颲颳颴颵颶颷颸颹颺颻颼颽颾颿飀飁飂飃飄飅飆飇飈飉飊飋飌飍风飏飐飑飒飓飔飕飖飗飘飙飚飛飜飝飞食飠飡飢飣飤飥飦飧飨飩飪飫飬飭飮飯飰飱飲飳飴飵飶飷飸飹飺飻飼飽飾飿",
     "馀馁馂馃馄馅馆馇馈馉馊馋馌馍馎馏馐馑馒馓馔馕首馗馘香馚馛馜馝馞馟馠馡馢馣馤馥馦馧馨馩馪馫馬馭馮馯馰馱馲馳馴馵馶馷馸馹馺馻馼馽馾馿駀駁駂駃駄駅駆駇駈駉駊駋駌駍駎駏駐駑駒駓駔駕駖駗駘駙駚駛駜駝駞駟駠駡駢駣駤駥駦駧駨駩駪駫駬駭駮駯駰駱駲駳駴駵駶駷駸駹駺駻駼駽駾駿",
     "骀骁骂骃骄骅骆骇骈骉骊骋验骍骎骏骐骑骒骓骔骕骖骗骘骙骚骛骜骝骞骟骠骡骢骣骤骥骦骧骨骩骪骫骬骭骮骯骰骱骲骳骴骵骶骷骸骹骺骻骼骽骾骿髀髁髂髃髄髅髆髇髈髉髊髋髌髍髎髏髐髑髒髓體髕髖髗高髙髚髛髜髝髞髟髠髡髢髣髤髥髦髧髨髩髪髫髬髭髮髯髰髱髲髳髴髵髶髷髸髹髺髻髼髽髾髿",
     "鮀鮁鮂鮃鮄鮅鮆鮇鮈鮉鮊鮋鮌鮍鮎鮏鮐鮑鮒鮓鮔鮕鮖鮗鮘鮙鮚鮛鮜鮝鮞鮟鮠鮡鮢鮣鮤鮥鮦鮧鮨鮩鮪鮫鮬鮭鮮鮯鮰鮱鮲鮳鮴鮵鮶鮷鮸鮹鮺鮻鮼鮽鮾鮿鯀鯁鯂鯃鯄鯅鯆鯇鯈鯉鯊鯋鯌鯍鯎鯏鯐鯑鯒鯓鯔鯕鯖鯗鯘鯙鯚鯛鯜鯝鯞鯟鯠鯡鯢鯣鯤鯥鯦鯧鯨鯩鯪鯫鯬鯭鯮鯯鯰鯱鯲鯳鯴鯵鯶鯷鯸鯹鯺鯻鯼鯽鯾鯿",
     "鲀鲁鲂鲃鲄鲅鲆鲇鲈鲉鲊鲋鲌鲍鲎鲏鲐鲑鲒鲓鲔鲕鲖鲗鲘鲙鲚鲛鲜鲝鲞鲟鲠鲡鲢鲣鲤鲥鲦鲧鲨鲩鲪鲫鲬鲭鲮鲯鲰鲱鲲鲳鲴鲵鲶鲷鲸鲹鲺鲻鲼鲽鲾鲿鳀鳁鳂鳃鳄鳅鳆鳇鳈鳉鳊鳋鳌鳍鳎鳏鳐鳑鳒鳓鳔鳕鳖鳗鳘鳙鳚鳛鳜鳝鳞鳟鳠鳡鳢鳣鳤鳥鳦鳧鳨鳩鳪鳫鳬鳭鳮鳯鳰鳱鳲鳳鳴鳵鳶鳷鳸鳹鳺鳻鳼鳽鳾鳿",
     "鶀鶁鶂鶃鶄鶅鶆鶇鶈鶉鶊鶋鶌鶍鶎鶏鶐鶑鶒鶓鶔鶕鶖鶗鶘鶙鶚鶛鶜鶝鶞鶟鶠鶡鶢鶣鶤鶥鶦鶧鶨鶩鶪鶫鶬鶭鶮鶯鶰鶱鶲鶳鶴鶵鶶鶷鶸鶹鶺鶻鶼鶽鶾鶿鷀鷁鷂鷃鷄鷅鷆鷇鷈鷉鷊鷋鷌鷍鷎鷏鷐鷑鷒鷓鷔鷕鷖鷗鷘鷙鷚鷛鷜鷝鷞鷟鷠鷡鷢鷣鷤鷥鷦鷧鷨鷩鷪鷫鷬鷭鷮鷯鷰鷱鷲鷳鷴鷵鷶鷷鷸鷹鷺鷻鷼鷽鷾鷿",
     "麀麁麂麃麄麅麆麇麈麉麊麋麌麍麎麏麐麑麒麓麔麕麖麗麘麙麚麛麜麝麞麟麠麡麢麣麤麥麦麧麨麩麪麫麬麭麮麯麰麱麲麳麴麵麶麷麸麹麺麻麼麽麾麿黀黁黂黃黄黅黆黇黈黉黊黋黌黍黎黏黐黑黒黓黔黕黖黗默黙黚黛黜黝點黟黠黡黢黣黤黥黦黧黨黩黪黫黬黭黮黯黰黱黲黳黴黵黶黷黸黹黺黻黼黽黾黿",
     "龀龁龂龃龄龅龆龇龈龉龊龋龌龍龎龏龐龑龒龓龔龕龖龗龘龙龚龛龜龝龞龟龠龡龢龣龤龥龦龧龨龩龪龫龬龭龮龯龰龱龲龳龴龵龶龷龸龹龺龻龼龽龾龿鿀鿁鿂鿃鿄鿅鿆鿇鿈鿉鿊鿋鿌鿍鿎鿏鿐鿑鿒鿓鿔鿕鿖鿗鿘鿙鿚鿛鿜鿝鿞鿟鿠鿡鿢鿣鿤鿥鿦鿧鿨鿩鿪鿫鿬鿭鿮鿯鿰鿱鿲鿳鿴鿵鿶鿷鿸鿹鿺鿻鿼鿽鿾鿿",
     "ꂀꂁꂂꂃꂄꂅꂆꂇꂈꂉꂊꂋꂌꂍꂎꂏꂐꂑꂒꂓꂔꂕꂖꂗꂘꂙꂚꂛꂜꂝꂞꂟꂠꂡꂢꂣꂤꂥꂦꂧꂨꂩꂪꂫꂬꂭꂮꂯꂰꂱꂲꂳꂴꂵꂶꂷꂸꂹꂺꂻꂼꂽꂾꂿꃀꃁꃂꃃꃄꃅꃆꃇꃈꃉꃊꃋꃌꃍꃎꃏꃐꃑꃒꃓꃔꃕꃖꃗꃘꃙꃚꃛꃜꃝꃞꃟꃠꃡꃢꃣꃤꃥꃦꃧꃨꃩꃪꃫꃬꃭꃮꃯꃰꃱꃲꃳꃴꃵꃶꃷꃸꃹꃺꃻꃼꃽꃾꃿ",
     "ꆀꆁꆂꆃꆄꆅꆆꆇꆈꆉꆊꆋꆌꆍꆎꆏꆐꆑꆒꆓꆔꆕꆖꆗꆘꆙꆚꆛꆜꆝꆞꆟꆠꆡꆢꆣꆤꆥꆦꆧꆨꆩꆪꆫꆬꆭꆮꆯꆰꆱꆲꆳꆴꆵꆶꆷꆸꆹꆺꆻꆼꆽꆾꆿꇀꇁꇂꇃꇄꇅꇆꇇꇈꇉꇊꇋꇌꇍꇎꇏꇐꇑꇒꇓꇔꇕꇖꇗꇘꇙꇚꇛꇜꇝꇞꇟꇠꇡꇢꇣꇤꇥꇦꇧꇨꇩꇪꇫꇬꇭꇮꇯꇰꇱꇲꇳꇴꇵꇶꇷꇸꇹꇺꇻꇼꇽꇾꇿ",
     "ꊀꊁꊂꊃꊄꊅꊆꊇꊈꊉꊊꊋꊌꊍꊎꊏꊐꊑꊒꊓꊔꊕꊖꊗꊘꊙꊚꊛꊜꊝꊞꊟꊠꊡꊢꊣꊤꊥꊦꊧꊨꊩꊪꊫꊬꊭꊮꊯꊰꊱꊲꊳꊴꊵꊶꊷꊸꊹꊺꊻꊼꊽꊾꊿꋀꋁꋂꋃꋄꋅꋆꋇꋈꋉꋊꋋꋌꋍꋎꋏꋐꋑꋒꋓꋔꋕꋖꋗꋘꋙꋚꋛꋜꋝꋞꋟꋠꋡꋢꋣꋤꋥꋦꋧꋨꋩꋪꋫꋬꋭꋮꋯꋰꋱꋲꋳꋴꋵꋶꋷꋸꋹꋺꋻꋼꋽꋾꋿ",
     "ꎀꎁꎂꎃꎄꎅꎆꎇꎈꎉꎊꎋꎌꎍꎎꎏꎐꎑꎒꎓꎔꎕꎖꎗꎘꎙꎚꎛꎜꎝꎞꎟꎠꎡꎢꎣꎤꎥꎦꎧꎨꎩꎪꎫꎬꎭꎮꎯꎰꎱꎲꎳꎴꎵꎶꎷꎸꎹꎺꎻꎼꎽꎾꎿꏀꏁꏂꏃꏄꏅꏆꏇꏈꏉꏊꏋꏌꏍꏎꏏꏐꏑꏒꏓꏔꏕꏖꏗꏘꏙꏚꏛꏜꏝꏞꏟꏠꏡꏢꏣꏤꏥꏦꏧꏨꏩꏪꏫꏬꏭꏮꏯꏰꏱꏲꏳꏴꏵꏶꏷꏸꏹꏺꏻꏼꏽꏾꏿ",
     "ꒀꒁꒂꒃꒄꒅꒆꒇꒈꒉꒊꒋꒌ꒍꒎꒏꒐꒑꒒꒓꒔꒕꒖꒗꒘꒙꒚꒛꒜꒝꒞꒟꒠꒡꒢꒣꒤꒥꒦꒧꒨꒩꒪꒫꒬꒭꒮꒯꒰꒱꒲꒳꒴꒵꒶꒷꒸꒹꒺꒻꒼꒽꒾꒿꓀꓁꓂꓃꓄꓅꓆꓇꓈꓉꓊꓋꓌꓍꓎꓏ꓐꓑꓒꓓꓔꓕꓖꓗꓘꓙꓚꓛꓜꓝꓞꓟꓠꓡꓢꓣꓤꓥꓦꓧꓨꓩꓪꓫꓬꓭꓮꓯꓰꓱꓲꓳꓴꓵꓶꓷꓸꓹꓺꓻꓼꓽ꓾꓿",
     "ꖀꖁꖂꖃꖄꖅꖆꖇꖈꖉꖊꖋꖌꖍꖎꖏꖐꖑꖒꖓꖔꖕꖖꖗꖘꖙꖚꖛꖜꖝꖞꖟꖠꖡꖢꖣꖤꖥꖦꖧꖨꖩꖪꖫꖬꖭꖮꖯꖰꖱꖲꖳꖴꖵꖶꖷꖸꖹꖺꖻꖼꖽꖾꖿꗀꗁꗂꗃꗄꗅꗆꗇꗈꗉꗊꗋꗌꗍꗎꗏꗐꗑꗒꗓꗔꗕꗖꗗꗘꗙꗚꗛꗜꗝꗞꗟꗠꗡꗢꗣꗤꗥꗦꗧꗨꗩꗪꗫꗬꗭꗮꗯꗰꗱꗲꗳꗴꗵꗶꗷꗸꗹꗺꗻꗼꗽꗾꗿ",
     "ꚀꚁꚂꚃꚄꚅꚆꚇꚈꚉꚊꚋꚌꚍꚎꚏꚐꚑꚒꚓꚔꚕꚖꚗꚘꚙꚚꚛꚜꚝꚞꚟꚠꚡꚢꚣꚤꚥꚦꚧꚨꚩꚪꚫꚬꚭꚮꚯꚰꚱꚲꚳꚴꚵꚶꚷꚸꚹꚺꚻꚼꚽꚾꚿꛀꛁꛂꛃꛄꛅꛆꛇꛈꛉꛊꛋꛌꛍꛎꛏꛐꛑꛒꛓꛔꛕꛖꛗꛘꛙꛚꛛꛜꛝꛞꛟꛠꛡꛢꛣꛤꛥꛦꛧꛨꛩꛪꛫꛬꛭꛮꛯ꛰꛱꛲꛳꛴꛵꛶꛷꛸꛹꛺꛻꛼꛽꛾꛿",
     "ꞀꞁꞂꞃꞄꞅꞆꞇꞈ꞉꞊ꞋꞌꞍꞎꞏꞐꞑꞒꞓꞔꞕꞖꞗꞘꞙꞚꞛꞜꞝꞞꞟꞠꞡꞢꞣꞤꞥꞦꞧꞨꞩꞪꞫꞬꞭꞮꞯꞰꞱꞲꞳꞴꞵꞶꞷꞸꞹꞺꞻꞼꞽꞾꞿꟀꟁꟂꟃꟄꟅꟆꟇꟈꟉꟊꟋꟌꟍ꟎꟏Ꟑꟑ꟒ꟓ꟔ꟕꟖꟗꟘꟙꟚꟛꟜ꟝꟞꟟꟠꟡꟢꟣꟤꟥꟦꟧꟨꟩꟪꟫꟬꟭꟮꟯꟰꟱ꟲꟳꟴꟵꟶꟷꟸꟹꟺꟻꟼꟽꟾꟿ",
     "ꢀꢁꢂꢃꢄꢅꢆꢇꢈꢉꢊꢋꢌꢍꢎꢏꢐꢑꢒꢓꢔꢕꢖꢗꢘꢙꢚꢛꢜꢝꢞꢟꢠꢡꢢꢣꢤꢥꢦꢧꢨꢩꢪꢫꢬꢭꢮꢯꢰꢱꢲꢳꢴꢵꢶꢷꢸꢹꢺꢻꢼꢽꢾꢿꣀꣁꣂꣃ꣄ꣅ꣆꣇꣈꣉꣊꣋꣌꣍꣎꣏꣐꣑꣒꣓꣔꣕꣖꣗꣘꣙꣚꣛꣜꣝꣞꣟꣠꣡꣢꣣꣤꣥꣦꣧꣨꣩꣪꣫꣬꣭꣮꣯꣰꣱ꣲꣳꣴꣵꣶꣷ꣸꣹꣺ꣻ꣼ꣽꣾꣿ",
     "ꦀꦁꦂꦃꦄꦅꦆꦇꦈꦉꦊꦋꦌꦍꦎꦏꦐꦑꦒꦓꦔꦕꦖꦗꦘꦙꦚꦛꦜꦝꦞꦟꦠꦡꦢꦣꦤꦥꦦꦧꦨꦩꦪꦫꦬꦭꦮꦯꦰꦱꦲ꦳ꦴꦵꦶꦷꦸꦹꦺꦻꦼꦽꦾꦿ꧀꧁꧂꧃꧄꧅꧆꧇꧈꧉꧊꧋꧌꧍꧎ꧏ꧐꧑꧒꧓꧔꧕꧖꧗꧘꧙꧚꧛꧜꧝꧞꧟ꧠꧡꧢꧣꧤꧥꧦꧧꧨꧩꧪꧫꧬꧭꧮꧯ꧰꧱꧲꧳꧴꧵꧶꧷꧸꧹ꧺꧻꧼꧽꧾ꧿",
     "ꪀꪁꪂꪃꪄꪅꪆꪇꪈꪉꪊꪋꪌꪍꪎꪏꪐꪑꪒꪓꪔꪕꪖꪗꪘꪙꪚꪛꪜꪝꪞꪟꪠꪡꪢꪣꪤꪥꪦꪧꪨꪩꪪꪫꪬꪭꪮꪯꪰꪱꪴꪲꪳꪵꪶꪷꪸꪹꪺꪻꪼꪽꪾ꪿ꫀ꫁ꫂ꫃꫄꫅꫆꫇꫈꫉꫊꫋꫌꫍꫎꫏꫐꫑꫒꫓꫔꫕꫖꫗꫘꫙꫚ꫛꫜꫝ꫞꫟ꫠꫡꫢꫣꫤꫥꫦꫧꫨꫩꫪꫫꫬꫭꫮꫯ꫰꫱ꫲꫳꫴꫵ꫶꫷꫸꫹꫺꫻꫼꫽꫾꫿",
     "ꮀꮁꮂꮃꮄꮅꮆꮇꮈꮉꮊꮋꮌꮍꮎꮏꮐꮑꮒꮓꮔꮕꮖꮗꮘꮙꮚꮛꮜꮝꮞꮟꮠꮡꮢꮣꮤꮥꮦꮧꮨꮩꮪꮫꮬꮭꮮꮯꮰꮱꮲꮳꮴꮵꮶꮷꮸꮹꮺꮻꮼꮽꮾꮿꯀꯁꯂꯃꯄꯅꯆꯇꯈꯉꯊꯋꯌꯍꯎꯏꯐꯑꯒꯓꯔꯕꯖꯗꯘꯙꯚꯛꯜꯝꯞꯟꯠꯡꯢꯣꯤꯥꯦꯧꯨꯩꯪ꯫꯬꯭꯮꯯꯰꯱꯲꯳꯴꯵꯶꯷꯸꯹꯺꯻꯼꯽꯾꯿",
     "검겁겂것겄겅겆겇겈겉겊겋게겍겎겏겐겑겒겓겔겕겖겗겘겙겚겛겜겝겞겟겠겡겢겣겤겥겦겧겨격겪겫견겭겮겯결겱겲겳겴겵겶겷겸겹겺겻겼경겾겿곀곁곂곃계곅곆곇곈곉곊곋곌곍곎곏곐곑곒곓곔곕곖곗곘곙곚곛곜곝곞곟고곡곢곣곤곥곦곧골곩곪곫곬곭곮곯곰곱곲곳곴공곶곷곸곹곺곻과곽곾곿",
     "궀궁궂궃궄궅궆궇궈궉궊궋권궍궎궏궐궑궒궓궔궕궖궗궘궙궚궛궜궝궞궟궠궡궢궣궤궥궦궧궨궩궪궫궬궭궮궯궰궱궲궳궴궵궶궷궸궹궺궻궼궽궾궿귀귁귂귃귄귅귆귇귈귉귊귋귌귍귎귏귐귑귒귓귔귕귖귗귘귙귚귛규귝귞귟균귡귢귣귤귥귦귧귨귩귪귫귬귭귮귯귰귱귲귳귴귵귶귷그극귺귻근귽귾귿",
     "꺀꺁꺂꺃꺄꺅꺆꺇꺈꺉꺊꺋꺌꺍꺎꺏꺐꺑꺒꺓꺔꺕꺖꺗꺘꺙꺚꺛꺜꺝꺞꺟꺠꺡꺢꺣꺤꺥꺦꺧꺨꺩꺪꺫꺬꺭꺮꺯꺰꺱꺲꺳꺴꺵꺶꺷꺸꺹꺺꺻꺼꺽꺾꺿껀껁껂껃껄껅껆껇껈껉껊껋껌껍껎껏껐껑껒껓껔껕껖껗께껙껚껛껜껝껞껟껠껡껢껣껤껥껦껧껨껩껪껫껬껭껮껯껰껱껲껳껴껵껶껷껸껹껺껻껼껽껾껿",
     "꾀꾁꾂꾃꾄꾅꾆꾇꾈꾉꾊꾋꾌꾍꾎꾏꾐꾑꾒꾓꾔꾕꾖꾗꾘꾙꾚꾛꾜꾝꾞꾟꾠꾡꾢꾣꾤꾥꾦꾧꾨꾩꾪꾫꾬꾭꾮꾯꾰꾱꾲꾳꾴꾵꾶꾷꾸꾹꾺꾻꾼꾽꾾꾿꿀꿁꿂꿃꿄꿅꿆꿇꿈꿉꿊꿋꿌꿍꿎꿏꿐꿑꿒꿓꿔꿕꿖꿗꿘꿙꿚꿛꿜꿝꿞꿟꿠꿡꿢꿣꿤꿥꿦꿧꿨꿩꿪꿫꿬꿭꿮꿯꿰꿱꿲꿳꿴꿵꿶꿷꿸꿹꿺꿻꿼꿽꿾꿿",
     "낀낁낂낃낄낅낆낇낈낉낊낋낌낍낎낏낐낑낒낓낔낕낖낗나낙낚낛난낝낞낟날낡낢낣낤낥낦낧남납낪낫났낭낮낯낰낱낲낳내낵낶낷낸낹낺낻낼낽낾낿냀냁냂냃냄냅냆냇냈냉냊냋냌냍냎냏냐냑냒냓냔냕냖냗냘냙냚냛냜냝냞냟냠냡냢냣냤냥냦냧냨냩냪냫냬냭냮냯냰냱냲냳냴냵냶냷냸냹냺냻냼냽냾냿",
     "놀놁놂놃놄놅놆놇놈놉놊놋놌농놎놏놐놑높놓놔놕놖놗놘놙놚놛놜놝놞놟놠놡놢놣놤놥놦놧놨놩놪놫놬놭놮놯놰놱놲놳놴놵놶놷놸놹놺놻놼놽놾놿뇀뇁뇂뇃뇄뇅뇆뇇뇈뇉뇊뇋뇌뇍뇎뇏뇐뇑뇒뇓뇔뇕뇖뇗뇘뇙뇚뇛뇜뇝뇞뇟뇠뇡뇢뇣뇤뇥뇦뇧뇨뇩뇪뇫뇬뇭뇮뇯뇰뇱뇲뇳뇴뇵뇶뇷뇸뇹뇺뇻뇼뇽뇾뇿",
     "늀늁늂늃늄늅늆늇늈늉늊늋늌늍늎늏느늑늒늓는늕늖늗늘늙늚늛늜늝늞늟늠늡늢늣늤능늦늧늨늩늪늫늬늭늮늯늰늱늲늳늴늵늶늷늸늹늺늻늼늽늾늿닀닁닂닃닄닅닆닇니닉닊닋닌닍닎닏닐닑닒닓닔닕닖닗님닙닚닛닜닝닞닟닠닡닢닣다닥닦닧단닩닪닫달닭닮닯닰닱닲닳담답닶닷닸당닺닻닼닽닾닿",
     "뎀뎁뎂뎃뎄뎅뎆뎇뎈뎉뎊뎋뎌뎍뎎뎏뎐뎑뎒뎓뎔뎕뎖뎗뎘뎙뎚뎛뎜뎝뎞뎟뎠뎡뎢뎣뎤뎥뎦뎧뎨뎩뎪뎫뎬뎭뎮뎯뎰뎱뎲뎳뎴뎵뎶뎷뎸뎹뎺뎻뎼뎽뎾뎿돀돁돂돃도독돆돇돈돉돊돋돌돍돎돏돐돑돒돓돔돕돖돗돘동돚돛돜돝돞돟돠돡돢돣돤돥돦돧돨돩돪돫돬돭돮돯돰돱돲돳돴돵돶돷돸돹돺돻돼돽돾돿",
     "뒀뒁뒂뒃뒄뒅뒆뒇뒈뒉뒊뒋뒌뒍뒎뒏뒐뒑뒒뒓뒔뒕뒖뒗뒘뒙뒚뒛뒜뒝뒞뒟뒠뒡뒢뒣뒤뒥뒦뒧뒨뒩뒪뒫뒬뒭뒮뒯뒰뒱뒲뒳뒴뒵뒶뒷뒸뒹뒺뒻뒼뒽뒾뒿듀듁듂듃듄듅듆듇듈듉듊듋듌듍듎듏듐듑듒듓듔듕듖듗듘듙듚듛드득듞듟든듡듢듣들듥듦듧듨듩듪듫듬듭듮듯듰등듲듳듴듵듶듷듸듹듺듻듼듽듾듿",
     "떀떁떂떃떄떅떆떇떈떉떊떋떌떍떎떏떐떑떒떓떔떕떖떗떘떙떚떛떜떝떞떟떠떡떢떣떤떥떦떧떨떩떪떫떬떭떮떯떰떱떲떳떴떵떶떷떸떹떺떻떼떽떾떿뗀뗁뗂뗃뗄뗅뗆뗇뗈뗉뗊뗋뗌뗍뗎뗏뗐뗑뗒뗓뗔뗕뗖뗗뗘뗙뗚뗛뗜뗝뗞뗟뗠뗡뗢뗣뗤뗥뗦뗧뗨뗩뗪뗫뗬뗭뗮뗯뗰뗱뗲뗳뗴뗵뗶뗷뗸뗹뗺뗻뗼뗽뗾뗿",
     "뚀뚁뚂뚃뚄뚅뚆뚇뚈뚉뚊뚋뚌뚍뚎뚏뚐뚑뚒뚓뚔뚕뚖뚗뚘뚙뚚뚛뚜뚝뚞뚟뚠뚡뚢뚣뚤뚥뚦뚧뚨뚩뚪뚫뚬뚭뚮뚯뚰뚱뚲뚳뚴뚵뚶뚷뚸뚹뚺뚻뚼뚽뚾뚿뛀뛁뛂뛃뛄뛅뛆뛇뛈뛉뛊뛋뛌뛍뛎뛏뛐뛑뛒뛓뛔뛕뛖뛗뛘뛙뛚뛛뛜뛝뛞뛟뛠뛡뛢뛣뛤뛥뛦뛧뛨뛩뛪뛫뛬뛭뛮뛯뛰뛱뛲뛳뛴뛵뛶뛷뛸뛹뛺뛻뛼뛽뛾뛿",
     "란랁랂랃랄랅랆랇랈랉랊랋람랍랎랏랐랑랒랓랔랕랖랗래랙랚랛랜랝랞랟랠랡랢랣랤랥랦랧램랩랪랫랬랭랮랯랰랱랲랳랴략랶랷랸랹랺랻랼랽랾랿럀럁럂럃럄럅럆럇럈량럊럋럌럍럎럏럐럑럒럓럔럕럖럗럘럙럚럛럜럝럞럟럠럡럢럣럤럥럦럧럨럩럪럫러럭럮럯런럱럲럳럴럵럶럷럸럹럺럻럼럽럾럿",
     "뢀뢁뢂뢃뢄뢅뢆뢇뢈뢉뢊뢋뢌뢍뢎뢏뢐뢑뢒뢓뢔뢕뢖뢗뢘뢙뢚뢛뢜뢝뢞뢟뢠뢡뢢뢣뢤뢥뢦뢧뢨뢩뢪뢫뢬뢭뢮뢯뢰뢱뢲뢳뢴뢵뢶뢷뢸뢹뢺뢻뢼뢽뢾뢿룀룁룂룃룄룅룆룇룈룉룊룋료룍룎룏룐룑룒룓룔룕룖룗룘룙룚룛룜룝룞룟룠룡룢룣룤룥룦룧루룩룪룫룬룭룮룯룰룱룲룳룴룵룶룷룸룹룺룻룼룽룾룿",
     "릀릁릂릃름릅릆릇릈릉릊릋릌릍릎릏릐릑릒릓릔릕릖릗릘릙릚릛릜릝릞릟릠릡릢릣릤릥릦릧릨릩릪릫리릭릮릯린릱릲릳릴릵릶릷릸릹릺릻림립릾릿맀링맂맃맄맅맆맇마막맊맋만맍많맏말맑맒맓맔맕맖맗맘맙맚맛맜망맞맟맠맡맢맣매맥맦맧맨맩맪맫맬맭맮맯맰맱맲맳맴맵맶맷맸맹맺맻맼맽맾맿",
     "몀몁몂몃몄명몆몇몈몉몊몋몌몍몎몏몐몑몒몓몔몕몖몗몘몙몚몛몜몝몞몟몠몡몢몣몤몥몦몧모목몪몫몬몭몮몯몰몱몲몳몴몵몶몷몸몹몺못몼몽몾몿뫀뫁뫂뫃뫄뫅뫆뫇뫈뫉뫊뫋뫌뫍뫎뫏뫐뫑뫒뫓뫔뫕뫖뫗뫘뫙뫚뫛뫜뫝뫞뫟뫠뫡뫢뫣뫤뫥뫦뫧뫨뫩뫪뫫뫬뫭뫮뫯뫰뫱뫲뫳뫴뫵뫶뫷뫸뫹뫺뫻뫼뫽뫾뫿",
     "뮀뮁뮂뮃뮄뮅뮆뮇뮈뮉뮊뮋뮌뮍뮎뮏뮐뮑뮒뮓뮔뮕뮖뮗뮘뮙뮚뮛뮜뮝뮞뮟뮠뮡뮢뮣뮤뮥뮦뮧뮨뮩뮪뮫뮬뮭뮮뮯뮰뮱뮲뮳뮴뮵뮶뮷뮸뮹뮺뮻뮼뮽뮾뮿므믁믂믃믄믅믆믇믈믉믊믋믌믍믎믏믐믑믒믓믔믕믖믗믘믙믚믛믜믝믞믟믠믡믢믣믤믥믦믧믨믩믪믫믬믭믮믯믰믱믲믳믴믵믶믷미믹믺믻민믽믾믿",
     "벀벁벂벃버벅벆벇번벉벊벋벌벍벎벏벐벑벒벓범법벖벗벘벙벚벛벜벝벞벟베벡벢벣벤벥벦벧벨벩벪벫벬벭벮벯벰벱벲벳벴벵벶벷벸벹벺벻벼벽벾벿변볁볂볃별볅볆볇볈볉볊볋볌볍볎볏볐병볒볓볔볕볖볗볘볙볚볛볜볝볞볟볠볡볢볣볤볥볦볧볨볩볪볫볬볭볮볯볰볱볲볳보복볶볷본볹볺볻볼볽볾볿",
     "부북붂붃분붅붆붇불붉붊붋붌붍붎붏붐붑붒붓붔붕붖붗붘붙붚붛붜붝붞붟붠붡붢붣붤붥붦붧붨붩붪붫붬붭붮붯붰붱붲붳붴붵붶붷붸붹붺붻붼붽붾붿뷀뷁뷂뷃뷄뷅뷆뷇뷈뷉뷊뷋뷌뷍뷎뷏뷐뷑뷒뷓뷔뷕뷖뷗뷘뷙뷚뷛뷜뷝뷞뷟뷠뷡뷢뷣뷤뷥뷦뷧뷨뷩뷪뷫뷬뷭뷮뷯뷰뷱뷲뷳뷴뷵뷶뷷뷸뷹뷺뷻뷼뷽뷾뷿",
     "뺀뺁뺂뺃뺄뺅뺆뺇뺈뺉뺊뺋뺌뺍뺎뺏뺐뺑뺒뺓뺔뺕뺖뺗뺘뺙뺚뺛뺜뺝뺞뺟뺠뺡뺢뺣뺤뺥뺦뺧뺨뺩뺪뺫뺬뺭뺮뺯뺰뺱뺲뺳뺴뺵뺶뺷뺸뺹뺺뺻뺼뺽뺾뺿뻀뻁뻂뻃뻄뻅뻆뻇뻈뻉뻊뻋뻌뻍뻎뻏뻐뻑뻒뻓뻔뻕뻖뻗뻘뻙뻚뻛뻜뻝뻞뻟뻠뻡뻢뻣뻤뻥뻦뻧뻨뻩뻪뻫뻬뻭뻮뻯뻰뻱뻲뻳뻴뻵뻶뻷뻸뻹뻺뻻뻼뻽뻾뻿",
     "뾀뾁뾂뾃뾄뾅뾆뾇뾈뾉뾊뾋뾌뾍뾎뾏뾐뾑뾒뾓뾔뾕뾖뾗뾘뾙뾚뾛뾜뾝뾞뾟뾠뾡뾢뾣뾤뾥뾦뾧뾨뾩뾪뾫뾬뾭뾮뾯뾰뾱뾲뾳뾴뾵뾶뾷뾸뾹뾺뾻뾼뾽뾾뾿뿀뿁뿂뿃뿄뿅뿆뿇뿈뿉뿊뿋뿌뿍뿎뿏뿐뿑뿒뿓뿔뿕뿖뿗뿘뿙뿚뿛뿜뿝뿞뿟뿠뿡뿢뿣뿤뿥뿦뿧뿨뿩뿪뿫뿬뿭뿮뿯뿰뿱뿲뿳뿴뿵뿶뿷뿸뿹뿺뿻뿼뿽뿾뿿",
     "삀삁삂삃삄삅삆삇삈삉삊삋삌삍삎삏삐삑삒삓삔삕삖삗삘삙삚삛삜삝삞삟삠삡삢삣삤삥삦삧삨삩삪삫사삭삮삯산삱삲삳살삵삶삷삸삹삺삻삼삽삾삿샀상샂샃샄샅샆샇새색샊샋샌샍샎샏샐샑샒샓샔샕샖샗샘샙샚샛샜생샞샟샠샡샢샣샤샥샦샧샨샩샪샫샬샭샮샯샰샱샲샳샴샵샶샷샸샹샺샻샼샽샾샿",
     "솀솁솂솃솄솅솆솇솈솉솊솋소속솎솏손솑솒솓솔솕솖솗솘솙솚솛솜솝솞솟솠송솢솣솤솥솦솧솨솩솪솫솬솭솮솯솰솱솲솳솴솵솶솷솸솹솺솻솼솽솾솿쇀쇁쇂쇃쇄쇅쇆쇇쇈쇉쇊쇋쇌쇍쇎쇏쇐쇑쇒쇓쇔쇕쇖쇗쇘쇙쇚쇛쇜쇝쇞쇟쇠쇡쇢쇣쇤쇥쇦쇧쇨쇩쇪쇫쇬쇭쇮쇯쇰쇱쇲쇳쇴쇵쇶쇷쇸쇹쇺쇻쇼쇽쇾쇿",
     "슀슁슂슃슄슅슆슇슈슉슊슋슌슍슎슏슐슑슒슓슔슕슖슗슘슙슚슛슜슝슞슟슠슡슢슣스슥슦슧슨슩슪슫슬슭슮슯슰슱슲슳슴습슶슷슸승슺슻슼슽슾슿싀싁싂싃싄싅싆싇싈싉싊싋싌싍싎싏싐싑싒싓싔싕싖싗싘싙싚싛시식싞싟신싡싢싣실싥싦싧싨싩싪싫심십싮싯싰싱싲싳싴싵싶싷싸싹싺싻싼싽싾싿",
     "쎀쎁쎂쎃쎄쎅쎆쎇쎈쎉쎊쎋쎌쎍쎎쎏쎐쎑쎒쎓쎔쎕쎖쎗쎘쎙쎚쎛쎜쎝쎞쎟쎠쎡쎢쎣쎤쎥쎦쎧쎨쎩쎪쎫쎬쎭쎮쎯쎰쎱쎲쎳쎴쎵쎶쎷쎸쎹쎺쎻쎼쎽쎾쎿쏀쏁쏂쏃쏄쏅쏆쏇쏈쏉쏊쏋쏌쏍쏎쏏쏐쏑쏒쏓쏔쏕쏖쏗쏘쏙쏚쏛쏜쏝쏞쏟쏠쏡쏢쏣쏤쏥쏦쏧쏨쏩쏪쏫쏬쏭쏮쏯쏰쏱쏲쏳쏴쏵쏶쏷쏸쏹쏺쏻쏼쏽쏾쏿",
     "쒀쒁쒂쒃쒄쒅쒆쒇쒈쒉쒊쒋쒌쒍쒎쒏쒐쒑쒒쒓쒔쒕쒖쒗쒘쒙쒚쒛쒜쒝쒞쒟쒠쒡쒢쒣쒤쒥쒦쒧쒨쒩쒪쒫쒬쒭쒮쒯쒰쒱쒲쒳쒴쒵쒶쒷쒸쒹쒺쒻쒼쒽쒾쒿쓀쓁쓂쓃쓄쓅쓆쓇쓈쓉쓊쓋쓌쓍쓎쓏쓐쓑쓒쓓쓔쓕쓖쓗쓘쓙쓚쓛쓜쓝쓞쓟쓠쓡쓢쓣쓤쓥쓦쓧쓨쓩쓪쓫쓬쓭쓮쓯쓰쓱쓲쓳쓴쓵쓶쓷쓸쓹쓺쓻쓼쓽쓾쓿",
     "얀얁얂얃얄얅얆얇얈얉얊얋얌얍얎얏얐양얒얓얔얕얖얗얘얙얚얛얜얝얞얟얠얡얢얣얤얥얦얧얨얩얪얫얬얭얮얯얰얱얲얳어억얶얷언얹얺얻얼얽얾얿엀엁엂엃엄업없엇었엉엊엋엌엍엎엏에엑엒엓엔엕엖엗엘엙엚엛엜엝엞엟엠엡엢엣엤엥엦엧엨엩엪엫여역엮엯연엱엲엳열엵엶엷엸엹엺엻염엽엾엿",
     "욀욁욂욃욄욅욆욇욈욉욊욋욌욍욎욏욐욑욒욓요욕욖욗욘욙욚욛욜욝욞욟욠욡욢욣욤욥욦욧욨용욪욫욬욭욮욯우욱욲욳운욵욶욷울욹욺욻욼욽욾욿움웁웂웃웄웅웆웇웈웉웊웋워웍웎웏원웑웒웓월웕웖웗웘웙웚웛웜웝웞웟웠웡웢웣웤웥웦웧웨웩웪웫웬웭웮웯웰웱웲웳웴웵웶웷웸웹웺웻웼웽웾웿",
     "잀잁잂잃임입잆잇있잉잊잋잌잍잎잏자작잒잓잔잕잖잗잘잙잚잛잜잝잞잟잠잡잢잣잤장잦잧잨잩잪잫재잭잮잯잰잱잲잳잴잵잶잷잸잹잺잻잼잽잾잿쟀쟁쟂쟃쟄쟅쟆쟇쟈쟉쟊쟋쟌쟍쟎쟏쟐쟑쟒쟓쟔쟕쟖쟗쟘쟙쟚쟛쟜쟝쟞쟟쟠쟡쟢쟣쟤쟥쟦쟧쟨쟩쟪쟫쟬쟭쟮쟯쟰쟱쟲쟳쟴쟵쟶쟷쟸쟹쟺쟻쟼쟽쟾쟿",
     "좀좁좂좃좄종좆좇좈좉좊좋좌좍좎좏좐좑좒좓좔좕좖좗좘좙좚좛좜좝좞좟좠좡좢좣좤좥좦좧좨좩좪좫좬좭좮좯좰좱좲좳좴좵좶좷좸좹좺좻좼좽좾좿죀죁죂죃죄죅죆죇죈죉죊죋죌죍죎죏죐죑죒죓죔죕죖죗죘죙죚죛죜죝죞죟죠죡죢죣죤죥죦죧죨죩죪죫죬죭죮죯죰죱죲죳죴죵죶죷죸죹죺죻주죽죾죿",
     "즀즁즂즃즄즅즆즇즈즉즊즋즌즍즎즏즐즑즒즓즔즕즖즗즘즙즚즛즜증즞즟즠즡즢즣즤즥즦즧즨즩즪즫즬즭즮즯즰즱즲즳즴즵즶즷즸즹즺즻즼즽즾즿지직짂짃진짅짆짇질짉짊짋짌짍짎짏짐집짒짓짔징짖짗짘짙짚짛짜짝짞짟짠짡짢짣짤짥짦짧짨짩짪짫짬짭짮짯짰짱짲짳짴짵짶짷째짹짺짻짼짽짾짿",
     "쪀쪁쪂쪃쪄쪅쪆쪇쪈쪉쪊쪋쪌쪍쪎쪏쪐쪑쪒쪓쪔쪕쪖쪗쪘쪙쪚쪛쪜쪝쪞쪟쪠쪡쪢쪣쪤쪥쪦쪧쪨쪩쪪쪫쪬쪭쪮쪯쪰쪱쪲쪳쪴쪵쪶쪷쪸쪹쪺쪻쪼쪽쪾쪿쫀쫁쫂쫃쫄쫅쫆쫇쫈쫉쫊쫋쫌쫍쫎쫏쫐쫑쫒쫓쫔쫕쫖쫗쫘쫙쫚쫛쫜쫝쫞쫟쫠쫡쫢쫣쫤쫥쫦쫧쫨쫩쫪쫫쫬쫭쫮쫯쫰쫱쫲쫳쫴쫵쫶쫷쫸쫹쫺쫻쫼쫽쫾쫿",
     "쮀쮁쮂쮃쮄쮅쮆쮇쮈쮉쮊쮋쮌쮍쮎쮏쮐쮑쮒쮓쮔쮕쮖쮗쮘쮙쮚쮛쮜쮝쮞쮟쮠쮡쮢쮣쮤쮥쮦쮧쮨쮩쮪쮫쮬쮭쮮쮯쮰쮱쮲쮳쮴쮵쮶쮷쮸쮹쮺쮻쮼쮽쮾쮿쯀쯁쯂쯃쯄쯅쯆쯇쯈쯉쯊쯋쯌쯍쯎쯏쯐쯑쯒쯓쯔쯕쯖쯗쯘쯙쯚쯛쯜쯝쯞쯟쯠쯡쯢쯣쯤쯥쯦쯧쯨쯩쯪쯫쯬쯭쯮쯯쯰쯱쯲쯳쯴쯵쯶쯷쯸쯹쯺쯻쯼쯽쯾쯿",
     "첀첁첂첃첄첅첆첇첈첉첊첋첌첍첎첏첐첑첒첓첔첕첖첗처척첚첛천첝첞첟철첡첢첣첤첥첦첧첨첩첪첫첬청첮첯첰첱첲첳체첵첶첷첸첹첺첻첼첽첾첿쳀쳁쳂쳃쳄쳅쳆쳇쳈쳉쳊쳋쳌쳍쳎쳏쳐쳑쳒쳓쳔쳕쳖쳗쳘쳙쳚쳛쳜쳝쳞쳟쳠쳡쳢쳣쳤쳥쳦쳧쳨쳩쳪쳫쳬쳭쳮쳯쳰쳱쳲쳳쳴쳵쳶쳷쳸쳹쳺쳻쳼쳽쳾쳿",
     "춀춁춂춃춄춅춆춇춈춉춊춋춌춍춎춏춐춑춒춓추축춖춗춘춙춚춛출춝춞춟춠춡춢춣춤춥춦춧춨충춪춫춬춭춮춯춰춱춲춳춴춵춶춷춸춹춺춻춼춽춾춿췀췁췂췃췄췅췆췇췈췉췊췋췌췍췎췏췐췑췒췓췔췕췖췗췘췙췚췛췜췝췞췟췠췡췢췣췤췥췦췧취췩췪췫췬췭췮췯췰췱췲췳췴췵췶췷췸췹췺췻췼췽췾췿",
     "캀캁캂캃캄캅캆캇캈캉캊캋캌캍캎캏캐캑캒캓캔캕캖캗캘캙캚캛캜캝캞캟캠캡캢캣캤캥캦캧캨캩캪캫캬캭캮캯캰캱캲캳캴캵캶캷캸캹캺캻캼캽캾캿컀컁컂컃컄컅컆컇컈컉컊컋컌컍컎컏컐컑컒컓컔컕컖컗컘컙컚컛컜컝컞컟컠컡컢컣커컥컦컧컨컩컪컫컬컭컮컯컰컱컲컳컴컵컶컷컸컹컺컻컼컽컾컿",
     "쾀쾁쾂쾃쾄쾅쾆쾇쾈쾉쾊쾋쾌쾍쾎쾏쾐쾑쾒쾓쾔쾕쾖쾗쾘쾙쾚쾛쾜쾝쾞쾟쾠쾡쾢쾣쾤쾥쾦쾧쾨쾩쾪쾫쾬쾭쾮쾯쾰쾱쾲쾳쾴쾵쾶쾷쾸쾹쾺쾻쾼쾽쾾쾿쿀쿁쿂쿃쿄쿅쿆쿇쿈쿉쿊쿋쿌쿍쿎쿏쿐쿑쿒쿓쿔쿕쿖쿗쿘쿙쿚쿛쿜쿝쿞쿟쿠쿡쿢쿣쿤쿥쿦쿧쿨쿩쿪쿫쿬쿭쿮쿯쿰쿱쿲쿳쿴쿵쿶쿷쿸쿹쿺쿻쿼쿽쿾쿿",
     "킀킁킂킃킄킅킆킇킈킉킊킋킌킍킎킏킐킑킒킓킔킕킖킗킘킙킚킛킜킝킞킟킠킡킢킣키킥킦킧킨킩킪킫킬킭킮킯킰킱킲킳킴킵킶킷킸킹킺킻킼킽킾킿타탁탂탃탄탅탆탇탈탉탊탋탌탍탎탏탐탑탒탓탔탕탖탗탘탙탚탛태택탞탟탠탡탢탣탤탥탦탧탨탩탪탫탬탭탮탯탰탱탲탳탴탵탶탷탸탹탺탻탼탽탾탿",
     "톀톁톂톃톄톅톆톇톈톉톊톋톌톍톎톏톐톑톒톓톔톕톖톗톘톙톚톛톜톝톞톟토톡톢톣톤톥톦톧톨톩톪톫톬톭톮톯톰톱톲톳톴통톶톷톸톹톺톻톼톽톾톿퇀퇁퇂퇃퇄퇅퇆퇇퇈퇉퇊퇋퇌퇍퇎퇏퇐퇑퇒퇓퇔퇕퇖퇗퇘퇙퇚퇛퇜퇝퇞퇟퇠퇡퇢퇣퇤퇥퇦퇧퇨퇩퇪퇫퇬퇭퇮퇯퇰퇱퇲퇳퇴퇵퇶퇷퇸퇹퇺퇻퇼퇽퇾퇿",
     "튀튁튂튃튄튅튆튇튈튉튊튋튌튍튎튏튐튑튒튓튔튕튖튗튘튙튚튛튜튝튞튟튠튡튢튣튤튥튦튧튨튩튪튫튬튭튮튯튰튱튲튳튴튵튶튷트특튺튻튼튽튾튿틀틁틂틃틄틅틆틇틈틉틊틋틌틍틎틏틐틑틒틓틔틕틖틗틘틙틚틛틜틝틞틟틠틡틢틣틤틥틦틧틨틩틪틫틬틭틮틯티틱틲틳틴틵틶틷틸틹틺틻틼틽틾틿",
     "펀펁펂펃펄펅펆펇펈펉펊펋펌펍펎펏펐펑펒펓펔펕펖펗페펙펚펛펜펝펞펟펠펡펢펣펤펥펦펧펨펩펪펫펬펭펮펯펰펱펲펳펴펵펶펷편펹펺펻펼펽펾펿폀폁폂폃폄폅폆폇폈평폊폋폌폍폎폏폐폑폒폓폔폕폖폗폘폙폚폛폜폝폞폟폠폡폢폣폤폥폦폧폨폩폪폫포폭폮폯폰폱폲폳폴폵폶폷폸폹폺폻폼폽폾폿",
     "풀풁풂풃풄풅풆풇품풉풊풋풌풍풎풏풐풑풒풓풔풕풖풗풘풙풚풛풜풝풞풟풠풡풢풣풤풥풦풧풨풩풪풫풬풭풮풯풰풱풲풳풴풵풶풷풸풹풺풻풼풽풾풿퓀퓁퓂퓃퓄퓅퓆퓇퓈퓉퓊퓋퓌퓍퓎퓏퓐퓑퓒퓓퓔퓕퓖퓗퓘퓙퓚퓛퓜퓝퓞퓟퓠퓡퓢퓣퓤퓥퓦퓧퓨퓩퓪퓫퓬퓭퓮퓯퓰퓱퓲퓳퓴퓵퓶퓷퓸퓹퓺퓻퓼퓽퓾퓿",
     "햀햁햂햃햄햅햆햇했행햊햋햌햍햎햏햐햑햒햓햔햕햖햗햘햙햚햛햜햝햞햟햠햡햢햣햤향햦햧햨햩햪햫햬햭햮햯햰햱햲햳햴햵햶햷햸햹햺햻햼햽햾햿헀헁헂헃헄헅헆헇허헉헊헋헌헍헎헏헐헑헒헓헔헕헖헗험헙헚헛헜헝헞헟헠헡헢헣헤헥헦헧헨헩헪헫헬헭헮헯헰헱헲헳헴헵헶헷헸헹헺헻헼헽헾헿",
     "횀횁횂횃횄횅횆횇횈횉횊횋회획횎횏횐횑횒횓횔횕횖횗횘횙횚횛횜횝횞횟횠횡횢횣횤횥횦횧효횩횪횫횬횭횮횯횰횱횲횳횴횵횶횷횸횹횺횻횼횽횾횿훀훁훂훃후훅훆훇훈훉훊훋훌훍훎훏훐훑훒훓훔훕훖훗훘훙훚훛훜훝훞훟훠훡훢훣훤훥훦훧훨훩훪훫훬훭훮훯훰훱훲훳훴훵훶훷훸훹훺훻훼훽훾훿",
     "힀힁힂힃힄힅힆힇히힉힊힋힌힍힎힏힐힑힒힓힔힕힖힗힘힙힚힛힜힝힞힟힠힡힢힣힤힥힦힧힨힩힪힫힬힭힮힯ힰힱힲힳힴힵힶힷힸힹힺힻힼힽힾힿퟀퟁퟂퟃퟄퟅퟆ퟇퟈퟉퟊ퟋퟌퟍퟎퟏퟐퟑퟒퟓퟔퟕퟖퟗퟘퟙퟚퟛퟜퟝퟞퟟퟠퟡퟢퟣퟤퟥퟦퟧퟨퟩퟪퟫퟬퟭퟮퟯퟰퟱퟲퟳퟴퟵퟶퟷퟸퟹퟺퟻ퟼퟽퟾퟿",
     "",
     "",
     "",
     "",
     "",
     "",
     "",
     "",
     "",
     "",
     "",
     "",
     "",
     "",
     "",
     "",
     "",
     "",
     "",
     "",
     "",
     "",
     "",
     "",
     "",
     "呂女廬旅濾礪閭驪麗黎力曆歷轢年憐戀撚漣煉璉秊練聯輦蓮連鍊列劣咽烈裂說廉念捻殮簾獵令囹寧嶺怜玲瑩羚聆鈴零靈領例禮醴隸惡了僚寮尿料樂燎療蓼遼龍暈阮劉杻柳流溜琉留硫紐類六戮陸倫崙淪輪律慄栗率隆利吏履易李梨泥理痢罹裏裡里離匿溺吝燐璘藺隣鱗麟林淋臨立笠粒狀炙識什茶刺",
     "婢嬨廒廙彩徭惘慎愈憎慠懲戴揄搜摒敖晴朗望杖歹殺流滛滋漢瀞煮瞧爵犯猪瑱甆画瘝瘟益盛直睊着磌窱節类絛練缾者荒華蝹襁覆視調諸請謁諾諭謹變贈輸遲醙鉶陼難靖韛響頋頻鬒龜𢡊𢡄𣏕㮝䀘䀹𥉉𥳐𧻓齃龎﫚﫛﫜﫝﫞﫟﫠﫡﫢﫣﫤﫥﫦﫧﫨﫩﫪﫫﫬﫭﫮﫯﫰﫱﫲﫳﫴﫵﫶﫷﫸﫹﫺﫻﫼﫽﫾﫿",
     "ﮀﮁﮂﮃﮄﮅﮆﮇﮈﮉﮊﮋﮌﮍﮎﮏﮐﮑﮒﮓﮔﮕﮖﮗﮘﮙﮚﮛﮜﮝﮞﮟﮠﮡﮢﮣﮤﮥﮦﮧﮨﮩﮪﮫﮬﮭﮮﮯﮰﮱ﮲﮳﮴﮵﮶﮷﮸﮹﮺﮻﮼﮽﮾﮿﯀﯁﯂﯃﯄﯅﯆﯇﯈﯉﯊﯋﯌﯍﯎﯏﯐﯑﯒ﯓﯔﯕﯖﯗﯘﯙﯚﯛﯜﯝﯞﯟﯠﯡﯢﯣﯤﯥﯦﯧﯨﯩﯪﯫﯬﯭﯮﯯﯰﯱﯲﯳﯴﯵﯶﯷﯸﯹﯺﯻﯼﯽﯾﯿ",
     "ﲀﲁﲂﲃﲄﲅﲆﲇﲈﲉﲊﲋﲌﲍﲎﲏﲐﲑﲒﲓﲔﲕﲖﲗﲘﲙﲚﲛﲜﲝﲞﲟﲠﲡﲢﲣﲤﲥﲦﲧﲨﲩﲪﲫﲬﲭﲮﲯﲰﲱﲲﲳﲴﲵﲶﲷﲸﲹﲺﲻﲼﲽﲾﲿﳀﳁﳂﳃﳄﳅﳆﳇﳈﳉﳊﳋﳌﳍﳎﳏﳐﳑﳒﳓﳔﳕﳖﳗﳘﳙﳚﳛﳜﳝﳞﳟﳠﳡﳢﳣﳤﳥﳦﳧﳨﳩﳪﳫﳬﳭﳮﳯﳰﳱﳲﳳﳴﳵﳶﳷﳸﳹﳺﳻﳼﳽﳾﳿ",
     "ﶀﶁﶂﶃﶄﶅﶆﶇﶈﶉﶊﶋﶌﶍﶎﶏ﶐﶑ﶒﶓﶔﶕﶖﶗﶘﶙﶚﶛﶜﶝﶞﶟﶠﶡﶢﶣﶤﶥﶦﶧﶨﶩﶪﶫﶬﶭﶮﶯﶰﶱﶲﶳﶴﶵﶶﶷﶸﶹﶺﶻﶼﶽﶾﶿﷀﷁﷂﷃﷄﷅﷆﷇ﷈﷉﷊﷋﷌﷍﷎﷏﷐﷑﷒﷓﷔﷕﷖﷗﷘﷙﷚﷛﷜﷝﷞﷟﷠﷡﷢﷣﷤﷥﷦﷧﷨﷩﷪﷫﷬﷭﷮﷯ﷰﷱﷲﷳﷴﷵﷶﷷﷸﷹﷺﷻ﷼﷽﷾﷿",
     "ﺀﺁﺂﺃﺄﺅﺆﺇﺈﺉﺊﺋﺌﺍﺎﺏﺐﺑﺒﺓﺔﺕﺖﺗﺘﺙﺚﺛﺜﺝﺞﺟﺠﺡﺢﺣﺤﺥﺦﺧﺨﺩﺪﺫﺬﺭﺮﺯﺰﺱﺲﺳﺴﺵﺶﺷﺸﺹﺺﺻﺼﺽﺾﺿﻀﻁﻂﻃﻄﻅﻆﻇﻈﻉﻊﻋﻌﻍﻎﻏﻐﻑﻒﻓﻔﻕﻖﻗﻘﻙﻚﻛﻜﻝﻞﻟﻠﻡﻢﻣﻤﻥﻦﻧﻨﻩﻪﻫﻬﻭﻮﻯﻰﻱﻲﻳﻴﻵﻶﻷﻸﻹﻺﻻﻼ﻽﻾﻿",
     "ﾀﾁﾂﾃﾄﾅﾆﾇﾈﾉﾊﾋﾌﾍﾎﾏﾐﾑﾒﾓﾔﾕﾖﾗﾘﾙﾚﾛﾜﾝﾞﾟﾠﾡﾢﾣﾤﾥﾦﾧﾨﾩﾪﾫﾬﾭﾮﾯﾰﾱﾲﾳﾴﾵﾶﾷﾸﾹﾺﾻﾼﾽﾾ﾿￀￁ￂￃￄￅￆￇ￈￉ￊￋￌￍￎￏ￐￑ￒￓￔￕￖￗ￘￙ￚￛￜ￝￞￟￠￡￢￣￤￥￦￧￨￩￪￫￬￭￮￯￰￱￲￳￴￵￶￷￸￹￺￻￼�￾￿"
  >>

\* the number of the page at place k of Pages
PageNumber(k) == IF k < 216 THEN k ELSE k + 8

\* characters beyond U+FFFF, each of which is two code units, a high and a
\* low surrogate: the one at place k (from 0) of row number row is made of
\* the code units 55296 + SurrogateOffset(row, k) and
\* 56320 + SurrogateOffset(row, k)
Surrogates ==
  <<
     "𰂀𰒁𰢂𰲃𱂄𱒅𱢆𱲇𲂈𲒉𲢊𲲋𳂌𳒍𳢎𳲏𴂐𴒑𴢒𴲓𵂔𵒕𵢖𵲗𶂘𶒙𶢚𶲛𷂜𷒝𷢞𷲟𸂠𸒡𸢢𸲣𹂤𹒥𹢦𹲧𺂨𺒩𺢪𺲫𻂬𻒭𻢮𻲯𼂰𼒱𼢲𼲳𽂴𽒵𽢶𽲷𾂸𾒹𾢺𾲻𿂼𿒽𿢾𿲿񀃀񀓁񀣂񀳃񁃄񁓅񁣆񁳇񂃈񂓉񂣊񂳋񃃌񃓍񃣎񃳏񄃐񄓑񄣒񄳓񅃔񅓕񅣖񅳗񆃘񆓙񆣚񆳛񇃜񇓝񇣞񇳟񈃠񈓡񈣢񈳣񉃤񉓥񉣦񉳧񊃨񊓩񊣪񊳫񋃬񋓭񋣮񋳯񌃰񌓱񌣲񌳳񍃴񍓵񍣶񍳷񎃸񎓹񎣺񎳻񏃼񏓽񏣾񏳿",
     "񰆀񰖁񰦂񰶃񱆄񱖅񱦆񱶇񲆈񲖉񲦊񲶋񳆌񳖍񳦎񳶏񴆐񴖑񴦒񴶓񵆔񵖕񵦖񵶗񶆘񶖙񶦚񶶛񷆜񷖝񷦞񷶟񸆠񸖡񸦢񸶣񹆤񹖥񹦦񹶧񺆨񺖩񺦪񺶫񻆬񻖭񻦮񻶯񼆰񼖱񼦲񼶳񽆴񽖵񽦶񽶷񾆸񾖹񾦺񾶻񿆼񿖽񿦾񿶿򀇀򀗁򀧂򀷃򁇄򁗅򁧆򁷇򂇈򂗉򂧊򂷋򃇌򃗍򃧎򃷏򄇐򄗑򄧒򄷓򅇔򅗕򅧖򅷗򆇘򆗙򆧚򆷛򇇜򇗝򇧞򇷟򈇠򈗡򈧢򈷣򉇤򉗥򉧦򉷧򊇨򊗩򊧪򊷫򋇬򋗭򋧮򋷯򌇰򌗱򌧲򌷳򍇴򍗵򍧶򍷷򎇸򎗹򎧺򎷻򏇼򏗽򏧾򏷿",
     "򰊀򰚁򰪂򰺃򱊄򱚅򱪆򱺇򲊈򲚉򲪊򲺋򳊌򳚍򳪎򳺏򴊐򴚑򴪒򴺓򵊔򵚕򵪖򵺗򶊘򶚙򶪚򶺛򷊜򷚝򷪞򷺟򸊠򸚡򸪢򸺣򹊤򹚥򹪦򹺧򺊨򺚩򺪪򺺫򻊬򻚭򻪮򻺯򼊰򼚱򼪲򼺳򽊴򽚵򽪶򽺷򾊸򾚹򾪺򾺻򿊼򿚽򿪾򿺿󀋀󀛁󀫂󀻃󁋄󁛅󁫆󁻇󂋈󂛉󂫊󂻋󃋌󃛍󃫎󃻏󄋐󄛑󄫒󄻓󅋔󅛕󅫖󅻗󆋘󆛙󆫚󆻛󇋜󇛝󇫞󇻟󈋠󈛡󈫢󈻣󉋤󉛥󉫦󉻧󊋨󊛩󊫪󊻫󋋬󋛭󋫮󋻯󌋰󌛱󌫲󌻳󍋴󍛵󍫶󍻷󎋸󎛹󎫺󎻻󏋼󏛽󏫾󏻿",
     "󰎀󰞁󰮂󰾃󱎄󱞅󱮆󱾇󲎈󲞉󲮊󲾋󳎌󳞍󳮎󳾏󴎐󴞑󴮒󴾓󵎔󵞕󵮖󵾗󶎘󶞙󶮚󶾛󷎜󷞝󷮞󷾟󸎠󸞡󸮢󸾣󹎤󹞥󹮦󹾧󺎨󺞩󺮪󺾫󻎬󻞭󻮮󻾯󼎰󼞱󼮲󼾳󽎴󽞵󽮶󽾷󾎸󾞹󾮺󾾻󿎼󿞽󿮾󿾿􀏀􀟁􀯂􀿃􁏄􁟅􁯆􁿇􂏈􂟉􂯊􂿋􃏌􃟍􃯎􃿏􄏐􄟑􄯒􄿓􅏔􅟕􅯖􅿗􆏘􆟙􆯚􆿛􇏜􇟝􇯞􇿟􈏠􈟡􈯢􈿣􉏤􉟥􉯦􉿧􊏨􊟩􊯪􊿫􋏬􋟭􋯮􋿯􌏰􌟱􌯲􌿳􍏴􍟵􍯶􍿷􎏸􎟹􎯺􎿻􏏼􏟽􏯾􏿿"
  >>

SurrogateOffset(row, k) == 256 * (row - 1) + 128 + k

\* the code of each character of CharsLow and CharsHigh, as a table
CodePoints ==
    [c \in {SubSeq(CharsLow, i, i) : i \in 1..95} |->
        CHOOSE i \in 1..95 : SubSeq(CharsLow, i, i) = c]
    @@ [c \in {SubSeq(CharsHigh, i, i) : i \in 1..159} |->
           96 + CHOOSE i \in 1..159 : SubSeq(CharsHigh, i, i) = c]

\* the code unit that the one-unit string c is when CodePoints does not have
\* it: by its place in Pages or in Surrogates, and 0 for the character that
\* is in none of the tables
WideUnit(c) ==
    The({IF at # {}
         THEN The({256 * PageNumber(p[1]) + 127 + p[2] : p \in at})
         ELSE The({IF sur = {} THEN 0
                   ELSE The({(IF p[2] % 2 = 1 THEN 55296 ELSE 56320)
                                + SurrogateOffset(p[1], (p[2] - 1) \div 2) : p \in sur}) :
                      sur \in {{p \in (1..4) \X (1..256) :
                                   SubSeq(Surrogates[p[1]], p[2], p[2]) = c}}}) :
            at \in {{p \in (1..247) \X (1..128) : SubSeq(Pages[p[1]], p[2], p[2]) = c}}})

\* the code unit that the one-unit string c is
CodeUnit(c) ==
    The({IF c \in DOMAIN table THEN table[c] ELSE WideUnit(c) : table \in {CodePoints}})

IsHighSurrogate(unit) == unit \in 55296..56319

IsLowSurrogate(unit) == unit \in 56320..57343

\* the number of places the rune that starts at place i of s takes
RuneWidth(s, i) ==
    IF i <= Len(s) /\ IsHighSurrogate(CodeUnit(SubSeq(s, i, i))) THEN 2 ELSE 1

\* utf8.DecodeRuneInString at place i of s: the rune that starts there and
\* the number of places it takes; at the second place of a rune, the code
\* unit that is there
RuneAt(s, i) ==
    The({IF IsHighSurrogate(unit)
         THEN <<65536 + 1024 * (unit - 55296)
                      + (CodeUnit(SubSeq(s, i + 1, i + 1)) - 56320), 2>>
         ELSE <<unit, 1>> :
            unit \in {CodeUnit(SubSeq(s, i, i))}})

\* utf8.EncodeRune: the bytes of a rune in a Go string
EncodeRune(rune) ==
    IF rune < 128 THEN <<rune>>
    ELSE IF rune < 2048 THEN <<192 + (rune \div 64), 128 + (rune % 64)>>
    ELSE IF rune < 65536
    THEN <<224 + (rune \div 4096), 128 + ((rune \div 64) % 64), 128 + (rune % 64)>>
    ELSE <<240 + (rune \div 262144), 128 + ((rune \div 4096) % 64),
           128 + ((rune \div 64) % 64), 128 + (rune % 64)>>

\* the bytes of the Go string that place i of s stands for: those of the
\* rune that starts there, none at the second place of a rune
RuneBytesAt(s, i) ==
    The({IF IsLowSurrogate(d[1]) THEN <<>> ELSE EncodeRune(d[1]) : d \in {RuneAt(s, i)}})

\* a byte of the Go string for the one-unit string c: the first byte of its
\* rune, and for the second place of a rune the last byte
ByteOf(c) ==
    The({IF IsHighSurrogate(unit) THEN 240 + ((65536 + 1024 * (unit - 55296)) \div 262144)
         ELSE IF IsLowSurrogate(unit) THEN 128 + ((unit - 56320) % 64)
         ELSE EncodeRune(unit)[1] :
            unit \in {CodeUnit(c)}})

(* --------------------- classifier and resolver ------------------------- *)

\* positions where "github.com/" matches: the dot of the regular expressions
\* stands for any rune but a line break
GithubHosts(t) ==
    {i \in 1..(Len(t) - 10) :
        /\ SubSeq(t, i, i + 5) = "github"
        /\ SubSeq(t, i + 6, i + 6) # "\n"
        /\ HasPrefix(Drop(t, i + 5 + RuneWidth(t, i + 6)), "com/")}

\* what follows "github.com/" at the head of line
AfterHost(line) == Drop(line, 10 + RuneWidth(line, 7))

\* the part of t from position i to the end of i's line: no group (.*) runs
\* over a line break, so a match that starts at i lies inside it
LineFrom(t, i) ==
    LET breaks == {j \in Positions(t, "\n") : j >= i}
    IN  IF breaks = {} THEN Drop(t, i - 1)
        ELSE SubSeq(t, i, (CHOOSE j \in breaks : \A k \in breaks : j <= k) - 1)

\* the submatches of "github.com/(.*)/(.*)/(.*)/(.*):(.*)" matched at the head
\* of line: every group is greedy, so the colon is the last one of the line
\* and the three slashes are the last three before it; the empty sequence when
\* there is no match at this place
TemplateAt(line) ==
    LET rest == AfterHost(line)
        colons == Positions(rest, ":")
    IN  IF colons = {} THEN <<>>
        ELSE LET c == SetMax(colons)
                 Q == {j \in Positions(rest, "/") : j < c}
             IN  IF Cardinality(Q) < 3 THEN <<>>
                 ELSE LET s3 == SetMax(Q)
                          s2 == SetMax(Q \ {s3})
                          s1 == SetMax(Q \ {s3, s2})
                      IN  <<line,
                            SubSeq(rest, 1, s1 - 1),
                            SubSeq(rest, s1 + 1, s2 - 1),
                            SubSeq(rest, s2 + 1, s3 - 1),
                            SubSeq(rest, s3 + 1, c - 1),
                            Drop(rest, c)>>

\* the submatches of "github.com/(.*)/(.*)/(.*)" matched at the head of line:
\* the two slashes are the last two of the line
PackageAt(line) ==
    LET rest == AfterHost(line)
        Q == Positions(rest, "/")
    IN  IF Cardinality(Q) < 2 THEN <<>>
        ELSE LET s2 == SetMax(Q)
                 s1 == SetMax(Q \ {s2})
             IN  <<line,
                   SubSeq(rest, 1, s1 - 1),
                   SubSeq(rest, s1 + 1, s2 - 1),
                   Drop(rest, s2)>>

\* TemplateRegistryMatcher.FindStringSubmatch(t): the leftmost match; the
\* empty sequence when t does not match
TemplateSubmatch(t) ==
    LET ok == {i \in GithubHosts(t) : TemplateAt(LineFrom(t, i)) # <<>>}
    IN  IF ok = {} THEN <<>>
        ELSE TemplateAt(LineFrom(t, CHOOSE i \in ok : \A j \in ok : i <= j))

\* PackageRegistryMatcher.FindStringSubmatch(t): the leftmost match
PackageSubmatch(t) ==
    LET ok == {i \in GithubHosts(t) : PackageAt(LineFrom(t, i)) # <<>>}
    IN  IF ok = {} THEN <<>>
        ELSE PackageAt(LineFrom(t, CHOOSE i \in ok : \A j \in ok : i <= j))

IsGithubShortType(t) == TemplateSubmatch(t) # <<>>

IsGithubShortPackageType(t) == PackageSubmatch(t) # <<>>

\* strings.ToLower on ASCII letters, from position i of s on
RECURSIVE ToLowerFrom(_, _)
ToLowerFrom(s, i) ==
    IF i > Len(s) THEN ""
    ELSE The({IF k = 0 THEN SubSeq(s, i, i) ELSE SubSeq("abcdefghijklmnopqrstuvwxyz", k, k) :
                 k \in {IndexOf("ABCDEFGHIJKLMNOPQRSTUVWXYZ", SubSeq(s, i, i))}})
         \o ToLowerFrom(s, i + 1)

\* strings.ToLower on ASCII letters
ToLower(s) == ToLowerFrom(s, 1)

(* net/url, as url.Parse and URL.String use it. A decoded component (Path,
   Host, Fragment, user name, password) is a sequence of bytes, a raw one a
   string. *)

Letters == "ABCDEFGHIJKLMNOPQRSTUVWXYZabcdefghijklmnopqrstuvwxyz"

Digits == "0123456789"

\* c occurs in the string chars
OneOfChars(c, chars) == IndexOf(chars, c) > 0

\* the character of an ASCII byte other than 0 and 96
CharOf(b) ==
    IF b < 96 THEN SubSeq(CharsLow, b, b) ELSE SubSeq(CharsHigh, b - 96, b - 96)

\* the bytes of the characters of chars
BytesOf(chars) == {ByteOf(SubSeq(chars, i, i)) : i \in 1..Len(chars)}

\* the bytes of the letters and of the digits
LetterBytes == (65..90) \cup (97..122)

DigitBytes == 48..57

\* the character classes of shouldEscape: what a host may hold besides
\* letters and digits, the unreserved marks, the reserved characters, those
\* a user name or password may not hold, and what a fragment may hold
HostBytes == BytesOf("!$&'()*+,;=:[]<>\"")

MarkBytes == BytesOf("-_.~")

ReservedBytes == BytesOf("$&+,/:;=?@")

UserinfoEscapedBytes == BytesOf("@/?:")

FragmentBytes == BytesOf("!()*")

\* what a scheme may hold after its first character besides letters
SchemeBytes == DigitBytes \cup BytesOf("+-.")

\* ishex
IsHex(c) == OneOfChars(c, "0123456789abcdefABCDEF")

\* unhex
UnHex(c) ==
    LET k == IndexOf("0123456789abcdef", c)
    IN  IF k > 0 THEN k - 1 ELSE IndexOf("0123456789ABCDEF", c) - 1

\* "%" and the two upper-case hexadecimal digits of b
PercentHex(b) ==
    "%" \o SubSeq("0123456789ABCDEF", (b \div 16) + 1, (b \div 16) + 1)
        \o SubSeq("0123456789ABCDEF", (b % 16) + 1, (b % 16) + 1)

\* the digits of n in lower-case hexadecimal, width of them
RECURSIVE LowerHex(_, _)
LowerHex(n, width) ==
    IF width = 0 THEN ""
    ELSE LowerHex(n \div 16, width - 1)
         \o SubSeq("0123456789abcdef", (n % 16) + 1, (n % 16) + 1)

\* the ranges of the runes above U+00FF that strconv.IsPrint accepts: the
\* letters, marks, numbers, punctuation and symbols of Unicode 15.0. The
\* runes U+10000 to U+2FFFF, which no string here can hold, are left out
PrintRanges ==
   {<<256, 887>>, <<890, 895>>, <<900, 906>>, <<908, 908>>, <<910, 929>>, <<931, 1327>>,
    <<1329, 1366>>, <<1369, 1418>>, <<1421, 1423>>, <<1425, 1479>>, <<1488, 1514>>,
    <<1519, 1524>>, <<1542, 1563>>, <<1565, 1756>>, <<1758, 1805>>, <<1808, 1866>>,
    <<1869, 1969>>, <<1984, 2042>>, <<2045, 2093>>, <<2096, 2110>>, <<2112, 2139>>,
    <<2142, 2142>>, <<2144, 2154>>, <<2160, 2190>>, <<2200, 2273>>, <<2275, 2435>>,
    <<2437, 2444>>, <<2447, 2448>>, <<2451, 2472>>, <<2474, 2480>>, <<2482, 2482>>,
    <<2486, 2489>>, <<2492, 2500>>, <<2503, 2504>>, <<2507, 2510>>, <<2519, 2519>>,
    <<2524, 2525>>, <<2527, 2531>>, <<2534, 2558>>, <<2561, 2563>>, <<2565, 2570>>,
    <<2575, 2576>>, <<2579, 2600>>, <<2602, 2608>>, <<2610, 2611>>, <<2613, 2614>>,
    <<2616, 2617>>, <<2620, 2620>>, <<2622, 2626>>, <<2631, 2632>>, <<2635, 2637>>,
    <<2641, 2641>>, <<2649, 2652>>, <<2654, 2654>>, <<2662, 2678>>, <<2689, 2691>>,
    <<2693, 2701>>, <<2703, 2705>>, <<2707, 2728>>, <<2730, 2736>>, <<2738, 2739>>,
    <<2741, 2745>>, <<2748, 2757>>, <<2759, 2761>>, <<2763, 2765>>, <<2768, 2768>>,
    <<2784, 2787>>, <<2790, 2801>>, <<2809, 2815>>, <<2817, 2819>>, <<2821, 2828>>,
    <<2831, 2832>>, <<2835, 2856>>, <<2858, 2864>>, <<2866, 2867>>, <<2869, 2873>>,
    <<2876, 2884>>, <<2887, 2888>>, <<2891, 2893>>, <<2901, 2903>>, <<2908, 2909>>,
    <<2911, 2915>>, <<2918, 2935>>, <<2946, 2947>>, <<2949, 2954>>, <<2958, 2960>>,
    <<2962, 2965>>, <<2969, 2970>>, <<2972, 2972>>, <<2974, 2975>>, <<2979, 2980>>,
    <<2984, 2986>>, <<2990, 3001>>, <<3006, 3010>>, <<3014, 3016>>, <<3018, 3021>>,
    <<3024, 3024>>, <<3031, 3031>>, <<3046, 3066>>, <<3072, 3084>>, <<3086, 3088>>,
    <<3090, 3112>>, <<3114, 3129>>, <<3132, 3140>>, <<3142, 3144>>, <<3146, 3149>>,
    <<3157, 3158>>, <<3160, 3162>>, <<3165, 3165>>, <<3168, 3171>>, <<3174, 3183>>,
    <<3191, 3212>>, <<3214, 3216>>, <<3218, 3240>>, <<3242, 3251>>, <<3253, 3257>>,
    <<3260, 3268>>, <<3270, 3272>>, <<3274, 3277>>, <<3285, 3286>>, <<3293, 3294>>,
    <<3296, 3299>>, <<3302, 3311>>, <<3313, 3315>>, <<3328, 3340>>, <<3342, 3344>>,
    <<3346, 3396>>, <<3398, 3400>>, <<3402, 3407>>, <<3412, 3427>>, <<3430, 3455>>,
    <<3457, 3459>>, <<3461, 3478>>, <<3482, 3505>>, <<3507, 3515>>, <<3517, 3517>>,
    <<3520, 3526>>, <<3530, 3530>>, <<3535, 3540>>, <<3542, 3542>>, <<3544, 3551>>,
    <<3558, 3567>>, <<3570, 3572>>, <<3585, 3642>>, <<3647, 3675>>, <<3713, 3714>>,
    <<3716, 3716>>, <<3718, 3722>>, <<3724, 3747>>, <<3749, 3749>>, <<3751, 3773>>,
    <<3776, 3780>>, <<3782, 3782>>, <<3784, 3790>>, <<3792, 3801>>, <<3804, 3807>>,
    <<3840, 3911>>, <<3913, 3948>>, <<3953, 3991>>, <<3993, 4028>>, <<4030, 4044>>,
    <<4046, 4058>>, <<4096, 4293>>, <<4295, 4295>>, <<4301, 4301>>, <<4304, 4680>>,
    <<4682, 4685>>, <<4688, 4694>>, <<4696, 4696>>, <<4698, 4701>>, <<4704, 4744>>,
    <<4746, 4749>>, <<4752, 4784>>, <<4786, 4789>>, <<4792, 4798>>, <<4800, 4800>>,
    <<4802, 4805>>, <<4808, 4822>>, <<4824, 4880>>, <<4882, 4885>>, <<4888, 4954>>,
    <<4957, 4988>>, <<4992, 5017>>, <<5024, 5109>>, <<5112, 5117>>, <<5120, 5759>>,
    <<5761, 5788>>, <<5792, 5880>>, <<5888, 5909>>, <<5919, 5942>>, <<5952, 5971>>,
    <<5984, 5996>>, <<5998, 6000>>, <<6002, 6003>>, <<6016, 6109>>, <<6112, 6121>>,
    <<6128, 6137>>, <<6144, 6157>>, <<6159, 6169>>, <<6176, 6264>>, <<6272, 6314>>,
    <<6320, 6389>>, <<6400, 6430>>, <<6432, 6443>>, <<6448, 6459>>, <<6464, 6464>>,
    <<6468, 6509>>, <<6512, 6516>>, <<6528, 6571>>, <<6576, 6601>>, <<6608, 6618>>,
    <<6622, 6683>>, <<6686, 6750>>, <<6752, 6780>>, <<6783, 6793>>, <<6800, 6809>>,
    <<6816, 6829>>, <<6832, 6862>>, <<6912, 6988>>, <<6992, 7038>>, <<7040, 7155>>,
    <<7164, 7223>>, <<7227, 7241>>, <<7245, 7304>>, <<7312, 7354>>, <<7357, 7367>>,
    <<7376, 7418>>, <<7424, 7957>>, <<7960, 7965>>, <<7968, 8005>>, <<8008, 8013>>,
    <<8016, 8023>>, <<8025, 8025>>, <<8027, 8027>>, <<8029, 8029>>, <<8031, 8061>>,
    <<8064, 8116>>, <<8118, 8132>>, <<8134, 8147>>, <<8150, 8155>>, <<8157, 8175>>,
    <<8178, 8180>>, <<8182, 8190>>, <<8208, 8231>>, <<8240, 8286>>, <<8304, 8305>>,
    <<8308, 8334>>, <<8336, 8348>>, <<8352, 8384>>, <<8400, 8432>>, <<8448, 8587>>,
    <<8592, 9254>>, <<9280, 9290>>, <<9312, 11123>>, <<11126, 11157>>, <<11159, 11507>>,
    <<11513, 11557>>, <<11559, 11559>>, <<11565, 11565>>, <<11568, 11623>>,
    <<11631, 11632>>, <<11647, 11670>>, <<11680, 11686>>, <<11688, 11694>>,
    <<11696, 11702>>, <<11704, 11710>>, <<11712, 11718>>, <<11720, 11726>>,
    <<11728, 11734>>, <<11736, 11742>>, <<11744, 11869>>, <<11904, 11929>>,
    <<11931, 12019>>, <<12032, 12245>>, <<12272, 12283>>, <<12289, 12351>>,
    <<12353, 12438>>, <<12441, 12543>>, <<12549, 12591>>, <<12593, 12686>>,
    <<12688, 12771>>, <<12784, 12830>>, <<12832, 42124>>, <<42128, 42182>>,
    <<42192, 42539>>, <<42560, 42743>>, <<42752, 42954>>, <<42960, 42961>>,
    <<42963, 42963>>, <<42965, 42969>>, <<42994, 43052>>, <<43056, 43065>>,
    <<43072, 43127>>, <<43136, 43205>>, <<43214, 43225>>, <<43232, 43347>>,
    <<43359, 43388>>, <<43392, 43469>>, <<43471, 43481>>, <<43486, 43518>>,
    <<43520, 43574>>, <<43584, 43597>>, <<43600, 43609>>, <<43612, 43714>>,
    <<43739, 43766>>, <<43777, 43782>>, <<43785, 43790>>, <<43793, 43798>>,
    <<43808, 43814>>, <<43816, 43822>>, <<43824, 43883>>, <<43888, 44013>>,
    <<44016, 44025>>, <<44032, 55203>>, <<55216, 55238>>, <<55243, 55291>>,
    <<63744, 64109>>, <<64112, 64217>>, <<64256, 64262>>, <<64275, 64279>>,
    <<64285, 64310>>, <<64312, 64316>>, <<64318, 64318>>, <<64320, 64321>>,
    <<64323, 64324>>, <<64326, 64450>>, <<64467, 64911>>, <<64914, 64967>>,
    <<64975, 64975>>, <<65008, 65049>>, <<65056, 65106>>, <<65108, 65126>>,
    <<65128, 65131>>, <<65136, 65140>>, <<65142, 65276>>, <<65281, 65470>>,
    <<65474, 65479>>, <<65482, 65487>>, <<65490, 65495>>, <<65498, 65500>>,
    <<65504, 65510>>, <<65512, 65518>>, <<65532, 65533>>, <<196608, 201546>>,
    <<201552, 205743>>, <<917760, 917999>>}

\* strconv.IsPrint
IsPrint(rune) ==
    IF rune < 256 THEN rune \in 32..126 \/ (rune \in 161..255 /\ rune # 173)
    ELSE \E range \in PrintRanges : range[1] <= rune /\ rune <= range[2]

\* what strconv.Quote writes for a rune, c being its text: the quote and
\* the backslash escaped, a printable rune as it is, the others by name or
\* in hexadecimal
QuoteRune(c, rune) ==
    IF c = "\"" THEN "\\\""
    ELSE IF c = "\\" THEN "\\\\"
    ELSE IF IsPrint(rune) THEN c
    ELSE IF rune = 7 THEN "\\a"
    ELSE IF rune = 8 THEN "\\b"
    ELSE IF rune = 12 THEN "\\f"
    ELSE IF rune = 10 THEN "\\n"
    ELSE IF rune = 13 THEN "\\r"
    ELSE IF rune = 9 THEN "\\t"
    ELSE IF rune = 11 THEN "\\v"
    ELSE IF rune < 32 \/ rune = 127 THEN "\\x" \o LowerHex(rune, 2)
    ELSE IF rune < 65536 THEN "\\u" \o LowerHex(rune, 4)
    ELSE "\\U" \o LowerHex(rune, 8)

\* what strconv.Quote writes for place i of s: the rune that starts there,
\* and nothing at the second place of a rune
QuoteAt(s, i) ==
    The({IF IsLowSurrogate(d[1]) THEN ""
         ELSE QuoteRune(SubSeq(s, i, i + d[2] - 1), d[1]) :
            d \in {RuneAt(s, i)}})

\* what strconv.Quote writes for bytes that are no rune: \x and two digits each
RECURSIVE QuoteBytes(_, _)
QuoteBytes(bytes, i) ==
    IF i > Len(bytes) THEN ""
    ELSE "\\x" \o LowerHex(bytes[i], 2) \o QuoteBytes(bytes, i + 1)

\* strconv.Quote of the places lo to hi of s, without the quotes around it
RECURSIVE QuoteRange(_, _, _)
QuoteRange(s, lo, hi) ==
    IF lo > hi THEN ""
    ELSE IF lo = hi THEN QuoteAt(s, lo)
    ELSE The({QuoteRange(s, lo, mid) \o QuoteRange(s, mid + 1, hi) :
                 mid \in {(lo + hi) \div 2}})

\* strconv.Quote(s)
Quote(s) == "\"" \o QuoteRange(s, 1, Len(s)) \o "\""

\* strconv.Quote of the first n bytes of s from place i on, without the
\* quotes around it; a rune that the n bytes cut in two leaves bytes that
\* are no rune
RECURSIVE QuoteFrom(_, _, _)
QuoteFrom(s, i, n) ==
    IF i > Len(s) \/ n = 0 THEN ""
    ELSE The({IF Len(bytes) <= n
              THEN QuoteAt(s, i) \o QuoteFrom(s, i + 1, n - Len(bytes))
              ELSE QuoteBytes(SubSeq(bytes, 1, n), 1) :
                 bytes \in {RuneBytesAt(s, i)}})

\* strconv.Quote of s[i:], cut after three bytes: the text of an EscapeError
QuoteEscape(s, i) == "\"" \o QuoteFrom(s, i, 3) \o "\""

\* shouldEscape(c, mode) for the modes "path", "host", "zone", "userpw" and
\* "fragment"
ShouldEscape(b, mode) ==
    IF b \in LetterBytes \/ b \in DigitBytes THEN FALSE
    ELSE IF mode \in {"host", "zone"} /\ b \in HostBytes THEN FALSE
    ELSE IF b \in MarkBytes THEN FALSE
    ELSE IF b \in ReservedBytes /\ mode = "path" THEN b = ByteOf("?")
    ELSE IF b \in ReservedBytes /\ mode = "userpw" THEN b \in UserinfoEscapedBytes
    ELSE IF b \in ReservedBytes /\ mode = "fragment" THEN FALSE
    ELSE IF mode = "fragment" /\ b \in FragmentBytes THEN FALSE
    ELSE TRUE

\* the outcome of unescape at position i of s: "" when the character or %XX
\* there is accepted, else the error
UnescapeError(s, i, mode) ==
    LET c == SubSeq(s, i, i)
        esc == SubSeq(s, i, i + 2)
        malformed == \/ i + 2 > Len(s)
                     \/ ~IsHex(SubSeq(s, i + 1, i + 1))
                     \/ ~IsHex(SubSeq(s, i + 2, i + 2))
        v == 16 * UnHex(SubSeq(s, i + 1, i + 1)) + UnHex(SubSeq(s, i + 2, i + 2))
    IN  IF c = "%" /\ malformed THEN "invalid URL escape " \o QuoteEscape(s, i)
        ELSE IF /\ c = "%" /\ mode = "host"
                /\ UnHex(SubSeq(s, i + 1, i + 1)) < 8 /\ esc # "%25"
        THEN "invalid URL escape " \o Quote(esc)
        ELSE IF /\ c = "%" /\ mode = "zone"
                /\ esc # "%25" /\ v # 32 /\ ShouldEscape(v, "host")
        THEN "invalid URL escape " \o Quote(esc)
        ELSE IF /\ c # "%" /\ mode \in {"host", "zone"}
                /\ ByteOf(c) < 128 /\ ShouldEscape(ByteOf(c), "host")
        THEN "invalid character " \o Quote(c) \o " in host name"
        ELSE ""

\* the first position of s that unescape rejects in this mode; 0 when there
\* is none. The two characters of an accepted %XX are hexadecimal digits,
\* which no mode rejects, so every position can be asked
UnescapeStop(s, mode) ==
    The({IF bad = {} THEN 0 ELSE CHOOSE i \in bad : \A j \in bad : i <= j :
            bad \in {{i \in 1..Len(s) : UnescapeError(s, i, mode) # ""}}})

\* the bytes unescape decodes from position i of a string it accepts
RECURSIVE UnescapeBytes(_, _)
UnescapeBytes(s, i) ==
    IF i > Len(s) THEN <<>>
    ELSE IF SubSeq(s, i, i) = "%"
    THEN <<16 * UnHex(SubSeq(s, i + 1, i + 1)) + UnHex(SubSeq(s, i + 2, i + 2))>>
         \o UnescapeBytes(s, i + 3)
    ELSE RuneBytesAt(s, i) \o UnescapeBytes(s, i + 1)

\* unescape(s, mode): the decoded bytes, or the error
Unescape(s, mode) ==
    The({IF stop # 0 THEN [err |-> UnescapeError(s, stop, mode), bytes |-> <<>>]
         ELSE [err |-> "", bytes |-> UnescapeBytes(s, 1)] :
            stop \in {UnescapeStop(s, mode)}})

\* escape(s, mode) of the decoded bytes from position i on
RECURSIVE Escape(_, _, _)
Escape(bytes, i, mode) ==
    IF i > Len(bytes) THEN ""
    ELSE (IF ShouldEscape(bytes[i], mode) THEN PercentHex(bytes[i]) ELSE CharOf(bytes[i]))
         \o Escape(bytes, i + 1, mode)

\* validEncoded(s, mode)
ValidEncoded(s, mode) ==
    \A i \in 1..Len(s) :
       \/ OneOfChars(SubSeq(s, i, i), "!$&'()*+,;=:@[]%")
       \/ ~ShouldEscape(ByteOf(SubSeq(s, i, i)), mode)

\* strings.LastIndex(s, c) + 1 for a character c; 0 when c does not occur
LastIndexOf(s, c) ==
    LET hits == Positions(s, c)
    IN  IF hits = {} THEN 0 ELSE SetMax(hits)

\* the zero url.URL, with the error Parse returns beside it
EmptyURL ==
    [err |-> "", Scheme |-> "", Opaque |-> "", HasUser |-> FALSE,
     Username |-> <<>>, PasswordSet |-> FALSE, Password |-> <<>>, Host |-> <<>>,
     Path |-> <<>>, RawPath |-> "", OmitHost |-> FALSE, ForceQuery |-> FALSE,
     RawQuery |-> "", Fragment |-> <<>>, RawFragment |-> ""]

\* no URL and the error msg
ParseFailed(msg) == [EmptyURL EXCEPT !.err = msg]

\* stringContainsCTLByte
StringContainsCTLByte(s) ==
    \E i \in 1..Len(s) : \E b \in {ByteOf(SubSeq(s, i, i))} : b < 32 \/ b = 127

\* getScheme(rawURL): letters, and after the first character digits, "+", "-"
\* and ".", up to a colon
GetScheme(rawURL) ==
    LET stops == {i \in 1..Len(rawURL) :
                     \E b \in {ByteOf(SubSeq(rawURL, i, i))} :
                        /\ b \notin LetterBytes
                        /\ ~(i > 1 /\ b \in SchemeBytes)}
        i == CHOOSE j \in stops : \A k \in stops : j <= k
    IN  IF stops = {} \/ SubSeq(rawURL, i, i) # ":"
        THEN [err |-> "", scheme |-> "", rest |-> rawURL]
        ELSE IF i = 1
        THEN [err |-> "missing protocol scheme", scheme |-> "", rest |-> ""]
        ELSE [err |-> "", scheme |-> SubSeq(rawURL, 1, i - 1), rest |-> Drop(rawURL, i)]

\* validOptionalPort
ValidOptionalPort(port) ==
    \/ port = ""
    \/ /\ SubSeq(port, 1, 1) = ":"
       /\ \A i \in 2..Len(port) : OneOfChars(SubSeq(port, i, i), Digits)

\* validUserinfo
ValidUserinfo(s) ==
    \A i \in 1..Len(s) :
       LET c == SubSeq(s, i, i)
       IN  OneOfChars(c, Letters) \/ OneOfChars(c, Digits) \/ OneOfChars(c, "-._:~!$&'()*+,;=%@")

\* host1 + host2 + host3 of parseHost: the first error of the three unescape
\* results, else their bytes joined
JoinUnescaped(h1, h2, h3) ==
    IF h1.err # "" THEN h1
    ELSE IF h2.err # "" THEN h2
    ELSE IF h3.err # "" THEN h3
    ELSE [err |-> "", bytes |-> h1.bytes \o h2.bytes \o h3.bytes]

\* parseHost(host)
ParseHost(host) ==
    IF HasPrefix(host, "[")
    THEN LET i == LastIndexOf(host, "]")
             colonPort == Drop(host, i)
             zone == IndexOf(SubSeq(host, 1, i - 1), "%25")
         IN  IF i = 0 THEN [err |-> "missing ']' in host", bytes |-> <<>>]
             ELSE IF ~ValidOptionalPort(colonPort)
             THEN [err |-> "invalid port " \o Quote(colonPort) \o " after host",
                   bytes |-> <<>>]
             ELSE IF zone > 0
             THEN JoinUnescaped(Unescape(SubSeq(host, 1, zone - 1), "host"),
                                Unescape(SubSeq(host, zone, i - 1), "zone"),
                                Unescape(Drop(host, i - 1), "host"))
             ELSE Unescape(host, "host")
    ELSE LET i == LastIndexOf(host, ":")
             colonPort == Drop(host, i - 1)
         IN  IF i > 0 /\ ~ValidOptionalPort(colonPort)
             THEN [err |-> "invalid port " \o Quote(colonPort) \o " after host",
                   bytes |-> <<>>]
             ELSE Unescape(host, "host")

\* parseAuthority(authority): the user and the host set in url, or the error
ParseAuthority(url, authority) ==
    LET i == LastIndexOf(authority, "@")
        userinfo == SubSeq(authority, 1, i - 1)
        k == IndexOf(userinfo, ":")
        username == Unescape(IF k = 0 THEN userinfo ELSE SubSeq(userinfo, 1, k - 1),
                             "userpw")
        password == Unescape(IF k = 0 THEN "" ELSE Drop(userinfo, k), "userpw")
    IN  The({IF host.err # "" THEN ParseFailed(host.err)
             ELSE IF i = 0 THEN [url EXCEPT !.Host = host.bytes]
             ELSE IF ~ValidUserinfo(userinfo) THEN ParseFailed("net/url: invalid userinfo")
             ELSE IF username.err # "" THEN ParseFailed(username.err)
             ELSE IF password.err # "" THEN ParseFailed(password.err)
             ELSE [url EXCEPT !.Host = host.bytes, !.HasUser = TRUE,
                              !.Username = username.bytes, !.PasswordSet = k > 0,
                              !.Password = password.bytes] :
                host \in {ParseHost(Drop(authority, i))}})

\* (*URL).setPath(p): Path is the decoded p, RawPath is p when it is not the
\* default encoding of Path
SetPath(url, p) ==
    The({IF url.err # "" THEN url
         ELSE IF path.err # "" THEN ParseFailed(path.err)
         ELSE [url EXCEPT !.Path = path.bytes,
                          !.RawPath = IF p = Escape(path.bytes, 1, "path") THEN "" ELSE p] :
            path \in {Unescape(p, "path")}})

\* (*URL).setFragment(f)
SetFragment(url, f) ==
    The({IF frag.err # "" THEN ParseFailed(frag.err)
         ELSE [url EXCEPT !.Fragment = frag.bytes,
                          !.RawFragment = IF f = Escape(frag.bytes, 1, "fragment")
                                          THEN "" ELSE f] :
            frag \in {Unescape(f, "fragment")}})

\* parse(rawURL, false) once getScheme has returned s
ParseAfterScheme(rawURL, s) ==
    LET q == IndexOf(s.rest, "?")
        rest == IF q = 0 THEN s.rest ELSE SubSeq(s.rest, 1, q - 1)
        url == [EmptyURL EXCEPT !.Scheme = ToLower(s.scheme),
                                !.ForceQuery = q > 0 /\ q = Len(s.rest),
                                !.RawQuery = IF q = 0 THEN "" ELSE Drop(s.rest, q)]
        slash == IndexOf(rest, "/")
        segment == IF slash = 0 THEN rest ELSE SubSeq(rest, 1, slash - 1)
        after == Drop(rest, 2)
        k == IndexOf(after, "/")
        authority == IF k = 0 THEN after ELSE SubSeq(after, 1, k - 1)
    IN  IF s.err # "" THEN ParseFailed(s.err)
        ELSE IF ~HasPrefix(rest, "/") /\ s.scheme # "" THEN [url EXCEPT !.Opaque = rest]
        ELSE IF ~HasPrefix(rest, "/") /\ OneOfChars(":", segment)
        THEN ParseFailed("first path segment in URL cannot contain colon")
        ELSE IF (s.scheme # "" \/ ~HasPrefix(rest, "///")) /\ HasPrefix(rest, "//")
        THEN The({SetPath(withHost, IF k = 0 THEN "" ELSE Drop(after, k - 1)) :
                     withHost \in {ParseAuthority(url, authority)}})
        ELSE SetPath([url EXCEPT !.OmitHost = s.scheme # "" /\ HasPrefix(rest, "/")], rest)

\* parse(rawURL, false): the URL without its fragment
ParseNoFragment(rawURL) ==
    IF StringContainsCTLByte(rawURL)
    THEN ParseFailed("net/url: invalid control character in URL")
    ELSE IF rawURL = "*" THEN [EmptyURL EXCEPT !.Path = <<ByteOf("*")>>]
    ELSE The({ParseAfterScheme(rawURL, s) : s \in {GetScheme(rawURL)}})

\* url.Parse(t): the URL, or in err the error
ParseURL(t) ==
    LET h == IndexOf(t, "#")
        u == IF h = 0 THEN t ELSE SubSeq(t, 1, h - 1)
        frag == IF h = 0 THEN "" ELSE Drop(t, h)
    IN  The({IF url.err # "" THEN ParseFailed("parse " \o Quote(u) \o ": " \o url.err)
             ELSE IF frag = "" THEN url
             ELSE The({IF whole.err # ""
                       THEN ParseFailed("parse " \o Quote(t) \o ": " \o whole.err)
                       ELSE whole :
                          whole \in {SetFragment(url, frag)}}) :
                url \in {ParseNoFragment(u)}})

\* (*URL).EscapedPath()
EscapedPath(u) ==
    LET again == Unescape(u.RawPath, "path")
    IN  IF /\ u.RawPath # "" /\ ValidEncoded(u.RawPath, "path")
           /\ again.err = "" /\ again.bytes = u.Path
        THEN u.RawPath
        ELSE IF u.Path = <<ByteOf("*")>> THEN "*"
        ELSE Escape(u.Path, 1, "path")

\* (*URL).EscapedFragment()
EscapedFragment(u) ==
    LET again == Unescape(u.RawFragment, "fragment")
    IN  IF /\ u.RawFragment # "" /\ ValidEncoded(u.RawFragment, "fragment")
           /\ again.err = "" /\ again.bytes = u.Fragment
        THEN u.RawFragment
        ELSE Escape(u.Fragment, 1, "fragment")

\* (*Userinfo).String()
UserinfoString(u) ==
    Escape(u.Username, 1, "userpw")
        \o (IF u.PasswordSet THEN ":" \o Escape(u.Password, 1, "userpw") ELSE "")

\* (*URL).String() once EscapedPath has returned path
StringWithPath(u, path) ==
    LET scheme == IF u.Scheme # "" THEN u.Scheme \o ":" ELSE ""
        named == u.Scheme # "" \/ u.Host # <<>> \/ u.HasUser
        omitted == u.OmitHost /\ u.Host = <<>> /\ ~u.HasUser
        authority ==
            IF ~named \/ omitted THEN ""
            ELSE (IF u.Host # <<>> \/ u.Path # <<>> \/ u.HasUser THEN "//" ELSE "")
                 \o (IF u.HasUser THEN UserinfoString(u) \o "@" ELSE "")
                 \o Escape(u.Host, 1, "host")
        slash == IndexOf(path, "/")
        segment == IF slash = 0 THEN path ELSE SubSeq(path, 1, slash - 1)
        hier == scheme \o authority
                \o (IF path # "" /\ ~HasPrefix(path, "/") /\ u.Host # <<>> THEN "/" ELSE "")
                \o (IF scheme \o authority = "" /\ OneOfChars(":", segment) THEN "./" ELSE "")
                \o path
    IN  (IF u.Opaque # "" THEN scheme \o u.Opaque ELSE hier)
        \o (IF u.ForceQuery \/ u.RawQuery # "" THEN "?" \o u.RawQuery ELSE "")
        \o (IF u.Fragment # <<>> THEN "#" \o EscapedFragment(u) ELSE "")

\* (*URL).String()
URLString(u) == The({StringWithPath(u, path) : path \in {EscapedPath(u)}})

(* util.IsHttpUrl, whose code is not part of the sources: "a syntactically
   valid absolute HTTP(S) URL", read as the syntax of RFC 3986 for a URI of
   the scheme http or https with an authority. *)

\* the unreserved characters and the sub-delims
URIChars == Letters \o Digits \o "-._~!$&'()*+,;="

\* s is made of these characters, of those of more and of percent-encoded
\* bytes
ValidURIPart(s, more) ==
    \A i \in 1..Len(s) :
       \E c \in {SubSeq(s, i, i)} :
          IF c = "%"
          THEN /\ i + 2 <= Len(s)
               /\ IsHex(SubSeq(s, i + 1, i + 1))
               /\ IsHex(SubSeq(s, i + 2, i + 2))
          ELSE OneOfChars(c, URIChars) \/ OneOfChars(c, more)

\* the fields of s between the occurrences of the character c
Fields(s, c) ==
    LET P == Positions(s, c)
        cut(k) == IF k = 0 THEN 0
                  ELSE IF k > Cardinality(P) THEN Len(s) + 1
                  ELSE CHOOSE j \in P : Cardinality({q \in P : q < j}) = k - 1
    IN  [k \in 1..(Cardinality(P) + 1) |-> SubSeq(s, cut(k - 1) + 1, cut(k) - 1)]

\* s is made of one or more digits, at most most of them
DigitsOnly(s, most) ==
    /\ Len(s) \in 1..most
    /\ \A i \in 1..Len(s) : OneOfChars(SubSeq(s, i, i), Digits)

\* dec-octet: 0 to 255, without a leading zero
DecOctet(s) ==
    /\ DigitsOnly(s, 3)
    /\ Len(s) > 1 => SubSeq(s, 1, 1) # "0"
    /\ Len(s) = 3 =>
          100 * UnHex(SubSeq(s, 1, 1)) + 10 * UnHex(SubSeq(s, 2, 2))
              + UnHex(SubSeq(s, 3, 3)) <= 255

\* IPv4address
IPv4Address(s) ==
    \E f \in {Fields(s, ".")} : Len(f) = 4 /\ \A k \in 1..4 : DecOctet(f[k])

\* h16: one to four hexadecimal digits
H16(s) == Len(s) \in 1..4 /\ \A i \in 1..Len(s) : IsHex(SubSeq(s, i, i))

\* the number of 16-bit pieces that the groups g of an IPv6 address stand
\* for, the last of which may be an IPv4 address when tail allows it; -1
\* when a group is malformed
Pieces(g, tail) ==
    IF \A k \in 1..Len(g) : H16(g[k]) \/ (tail /\ k = Len(g) /\ IPv4Address(g[k]))
    THEN Len(g) + (IF H16(g[Len(g)]) THEN 0 ELSE 1)
    ELSE -1

\* IPv6address: eight pieces, or fewer around one "::"
IPv6Address(s) ==
    \E dbl \in {IndexOf(s, "::")} :
       IF dbl = 0 THEN Pieces(Fields(s, ":"), TRUE) = 8
       ELSE \E before \in {IF dbl = 1 THEN 0
                            ELSE Pieces(Fields(SubSeq(s, 1, dbl - 1), ":"), FALSE)},
               after \in {IF dbl + 1 = Len(s) THEN 0
                           ELSE Pieces(Fields(Drop(s, dbl + 1), ":"), TRUE)} :
               before >= 0 /\ after >= 0 /\ before + after <= 7

\* IPvFuture: "v", hexadecimal digits, ".", and one or more characters
IPvFuture(s) ==
    \E dot \in {IndexOf(s, ".")} :
       /\ Len(s) > 0
       /\ OneOfChars(SubSeq(s, 1, 1), "vV")
       /\ dot > 2
       /\ dot < Len(s)
       /\ \A i \in 2..(dot - 1) : IsHex(SubSeq(s, i, i))
       /\ \A i \in (dot + 1)..Len(s) :
             OneOfChars(SubSeq(s, i, i), URIChars) \/ SubSeq(s, i, i) = ":"

\* authority = [ userinfo "@" ] host [ ":" port ] with a host that is not
\* empty, as the scheme http asks
ValidURIAuthority(a) ==
    LET at == IndexOf(a, "@")
        hostport == Drop(a, at)
        close == IndexOf(hostport, "]")
        colon == IndexOf(hostport, ":")
        host == IF HasPrefix(hostport, "[") THEN SubSeq(hostport, 1, close)
                ELSE IF colon = 0 THEN hostport
                ELSE SubSeq(hostport, 1, colon - 1)
        port == Drop(hostport, Len(host))
    IN  /\ at > 0 => ValidURIPart(SubSeq(a, 1, at - 1), ":")
        /\ IF HasPrefix(hostport, "[")
           THEN /\ close > 2
                /\ \/ IPv6Address(SubSeq(host, 2, close - 1))
                   \/ IPvFuture(SubSeq(host, 2, close - 1))
           ELSE host # "" /\ ValidURIPart(host, "")
        /\ port = "" \/ port = ":" \/ (SubSeq(port, 1, 1) = ":" /\ DigitsOnly(Drop(port, 1), Len(port)))

\* the first n characters of s
Take(s, n) == SubSeq(s, 1, IF n < Len(s) THEN n ELSE Len(s))

\* util.IsHttpUrl(t): t is a syntactically valid absolute HTTP(S) URL
IsHttpUrl(t) ==
    LET n == IF ToLower(Take(t, 7)) = "http://" THEN 7
             ELSE IF ToLower(Take(t, 8)) = "https://" THEN 8
             ELSE 0
        rest == Drop(t, n)
        h == IndexOf(rest, "#")
        nofrag == IF h = 0 THEN rest ELSE SubSeq(rest, 1, h - 1)
        q == IndexOf(nofrag, "?")
        hier == IF q = 0 THEN nofrag ELSE SubSeq(nofrag, 1, q - 1)
        slash == IndexOf(hier, "/")
    IN  /\ n > 0
        /\ ValidURIAuthority(IF slash = 0 THEN hier ELSE SubSeq(hier, 1, slash - 1))
        /\ slash > 0 => ValidURIPart(Drop(hier, slash - 1), "/:@")
        /\ q > 0 => ValidURIPart(Drop(nofrag, q), "/:@?")
        /\ h > 0 => ValidURIPart(Drop(rest, h), "/:@?")

\* util.ConvertURLsToStrings(urls)
ConvertURLsToStrings(urls) == [i \in 1..Len(urls) |-> URLString(urls[i])]

\* type strings handed to GetDownloadURLs
TypeStrings ==
    {"github.com/kubernetes/application-dm-templates/storage/redis:v1",
     "github.com/helm/charts/cassandra",
     "https://github.com/helm/charts/cassandra",
     "githubXcom/helm/charts/common/redis/v1:v2",
     "github.com/helm/charts/stable/redis:v1\nbeta",
     "https://github.com/helm\n/charts/cassandra",
     "https://example.com/blob/file.yaml",
     "https://example.com/blob/file.yaml#",
     "HTTP://example.com/a?q=x",
     "https://ex%41mple.com/blob/file.yaml",
     "https://example.com/blob/my file.yaml",
     "string"}

\* slip: a full URL is recognised before the short forms are tried
GetDownloadURLsURLFirst(t) ==
    IF IsHttpUrl(t)
    THEN [route |-> "url", consulted |-> {"http"}]
    ELSE IF IsGithubShortType(t)
    THEN [route |-> "template", consulted |-> {"http", "template"}]
    ELSE IF IsGithubShortPackageType(t)
    THEN [route |-> "package", consulted |-> {"http", "template", "package"}]
    ELSE [route |-> "primitive", consulted |-> {"http", "template", "package"}]

\* slip: the package form is tested before the template form
GetDownloadURLsPackageFirst(t) ==
    IF IsGithubShortPackageType(t)
    THEN [route |-> "package", consulted |-> {"package"}]
    ELSE IF IsGithubShortType(t)
    THEN [route |-> "template", consulted |-> {"package", "template"}]
    ELSE IF IsHttpUrl(t)
    THEN [route |-> "url", consulted |-> {"package", "template", "http"}]
    ELSE [route |-> "primitive", consulted |-> {"package", "template", "http"}]

\* slip: a full URL is handed to the Provider like a short form
GetDownloadURLsProbesURLs(t) ==
    IF IsGithubShortType(t)
    THEN [route |-> "template", consulted |-> {"template"}]
    ELSE IF IsGithubShortPackageType(t) \/ IsHttpUrl(t)
    THEN [route |-> "package", consulted |-> {"template", "package"}]
    ELSE [route |-> "primitive", consulted |-> {"template", "package", "http"}]

\* GetDownloadURLs: the if / else if chain, with the matchers it evaluates
GetDownloadURLs(t) ==
    IF IsGithubShortType(t)
    THEN [route |-> "template", consulted |-> {"template"}]
    ELSE IF IsGithubShortPackageType(t)
    THEN [route |-> "package", consulted |-> {"template", "package"}]
    ELSE IF IsHttpUrl(t)
    THEN [route |-> "url", consulted |-> {"template", "package", "http"}]
    ELSE [route |-> "primitive", consulted |-> {"template", "package", "http"}]

\* slip: the components are taken one place too early
TypeArgsShifted(route, m) ==
    IF route = "template" THEN <<m[3], m[4], m[5]>> ELSE <<"", m[3], "">>

\* the arguments of NewType: m[3], m[4], m[5] of the template form, or
\* "", m[3], "" of the package form (m[0] is the first element here)
TypeArgs(route, m) ==
    IF route = "template" THEN <<m[4], m[5], m[6]>> ELSE <<"", m[4], "">>

\* NewType(collection, name, version), when it succeeds
NewType(args) ==
    [Collection |-> args[1], Name |-> args[2], Version |-> args[3], ok |-> TRUE]

\* the names of the types the type strings give, and the one of no type
TypeNames ==
    {NoType.Name}
        \cup {TypeArgs("template", TemplateSubmatch(t))[2] :
                 t \in {s \in TypeStrings : Len(TemplateSubmatch(s)) = 6}}
        \cup {TypeArgs("package", PackageSubmatch(t))[2] :
                 t \in {s \in TypeStrings : Len(PackageSubmatch(s)) = 4}}

\* the URLs a Registry may hold for an item, by their text: *url.URL values,
\* as url.Parse makes them
DownloadURLs ==
    [text \in {"https://" \o TrimURLScheme(u) \o "/" \o n \o x :
                  u \in RecordURLs, n \in TypeNames, x \in {".yaml", " v2.yaml"}} |->
        ParseURL(text)]

\* what r.GetDownloadURLs(tt) may report: an error, or a list of URLs of the
\* item inside the registry
DownloadOutcomes(reg, tt) ==
    LET base == TrimURLScheme(reg.shortURL) \o "/" \o tt.Name
    IN  The({{[urls |-> <<>>, err |-> "download failed"],
              [urls |-> <<>>, err |-> NoErr],
              [urls |-> <<held[".yaml"]>>, err |-> NoErr],
              [urls |-> <<held[".yaml"], held[" v2.yaml"]>>, err |-> NoErr]} :
                 held \in {[x \in {".yaml", " v2.yaml"} |->
                                 DownloadURLs["https://" \o base \o x]]}})

\* for each type string, the branch GetDownloadURLs takes and what url.Parse
\* makes of the string
Classified ==
    [t \in TypeStrings |-> [c |-> GetDownloadURLs(t), result |-> ParseURL(t)]]

\* GetDownloadURLs(rp, t) is entered: the classification of t; a full URL is
\* parsed and returned as its String(), or the error of url.Parse is returned
\* with no list; anything else unmatched gives []string{}
DlCall ==
    /\ dpc = "idle"
    /\ pc[1] = "idle"
    /\ ~fatal
    /\ downloads < MaxDownloads
    /\ downloads' = downloads + 1
    /\ \E t \in TypeStrings :
          \E call \in {Classified[t]} : \E c \in {call.c}, result \in {call.result} :
              /\ dt' = t
              /\ droute' = c.route
              /\ consulted' = c.consulted
              /\ dpc' = IF c.route \in {"template", "package"} THEN "match" ELSE "done"
              /\ IF c.route = "url" /\ result.err # NoErr
                 THEN /\ dres' = <<>>
                      /\ derr' = "cannot parse download URL " \o t \o ": " \o result.err
                 ELSE /\ dres' = IF c.route = "url" THEN <<URLString(result)>> ELSE <<>>
                      /\ derr' = derr
    /\ dcache' = registries
    /\ UNCHANGED <<dm, dprobe, dreg, dtt, durls, dsteps, dfail>>
    /\ UNCHANGED <<provVars, facVars>>

\* the message of the error returned when the submatches are not all there
ParseFailure(route) ==
    IF route = "template" THEN "cannot parse short github url: "
    ELSE "Failed to parse short github url: "

\* ShortTypeToDownloadURLs / ShortTypeToPackageDownloadURLs: FindStringSubmatch
\* and the check of the number of submatches
DlMatch ==
    /\ dpc = "match"
    /\ LET m == IF droute = "template" THEN TemplateSubmatch(dt) ELSE PackageSubmatch(dt)
           want == IF droute = "template" THEN 6 ELSE 4
       IN  /\ dm' = m
           /\ IF Len(m) # want
              THEN /\ derr' = ParseFailure(droute) \o dt
                   /\ dfail' = "match"
                   /\ dpc' = "done"
              ELSE /\ derr' = derr
                   /\ dfail' = dfail
                   /\ dpc' = "probe"
    /\ dsteps' = Append(dsteps, "match")
    /\ UNCHANGED <<downloads, dt, droute, consulted, dprobe, dreg, dtt, durls, dres, dcache>>
    /\ UNCHANGED <<provVars, facVars>>

\* r, err := rp.GetRegistryByShortURL(t): the call is entered
DlProbe ==
    /\ dpc = "probe"
    /\ Begin(1, "ByShortURL", dt)
    /\ dprobe' = Append(dprobe, dt)
    /\ dsteps' = Append(dsteps, "probe")
    /\ dpc' = "wait"
    /\ UNCHANGED <<downloads, dt, droute, consulted, dm, dreg, dtt, durls, dres, derr, dcache,
                   dfail>>
    /\ UNCHANGED facVars

\* where ShortTypeTo...DownloadURLs goes once the Provider has answered
\* (r, e): if err != nil return; the template path panics on a nil
\* Registry, the package path has no such test and goes on to NewType
AfterProbe(route, reg, e) ==
    IF e # NoErr THEN "done"
    ELSE IF route = "template" /\ reg = Nil THEN "panic"
    ELSE "newtype"

\* the Provider has returned
DlProbed ==
    /\ dpc = "wait"
    /\ pc[1] = "idle"
    /\ derr' = IF last.err # NoErr THEN last.err ELSE derr
    /\ dfail' = IF last.err # NoErr THEN "probe" ELSE dfail
    /\ dreg' = IF last.err # NoErr THEN dreg ELSE last.reg
    /\ dpc' = AfterProbe(droute, last.reg, last.err)
    /\ UNCHANGED <<downloads, dt, droute, consulted, dm, dprobe, dtt, durls, dres, dcache,
                   dsteps>>
    /\ UNCHANGED <<provVars, facVars>>

\* slip: the error of NewType is dropped and the Registry is asked anyway
AfterNewTypeSwallowed(accepted) == "urls"

\* if err != nil { return nil, err } after NewType
AfterNewType(accepted) == IF accepted THEN "urls" ELSE "done"

\* tt, err := NewType(...): the constructor accepts or rejects the components
DlNewType ==
    /\ dpc = "newtype"
    /\ \E accepted \in BOOLEAN :
          /\ dtt' = IF accepted THEN NewType(TypeArgs(droute, dm)) ELSE dtt
          /\ derr' = IF accepted THEN derr ELSE "invalid type"
          /\ dfail' = IF accepted \/ dfail # "" THEN dfail ELSE "newtype"
          /\ dpc' = AfterNewType(accepted)
    /\ dsteps' = Append(dsteps, "newtype")
    /\ UNCHANGED <<downloads, dt, droute, consulted, dm, dprobe, dreg, durls, dres, dcache>>
    /\ UNCHANGED <<provVars, facVars>>

\* urls, err := r.GetDownloadURLs(tt); return util.ConvertURLsToStrings(urls), err.
\* The method call on a nil Registry is a nil dereference: a runtime panic
DlUrls ==
    /\ dpc = "urls"
    /\ IF dreg = Nil
       THEN /\ dpc' = "panic"
            /\ UNCHANGED <<derr, durls, dres, dfail>>
       ELSE /\ \E out \in DownloadOutcomes(dreg, dtt) :
                  /\ derr' = out.err
                  /\ durls' = out.urls
                  /\ dres' = IF out.err # NoErr THEN <<>> ELSE ConvertURLsToStrings(out.urls)
                  /\ dfail' = IF out.err = NoErr \/ dfail # "" THEN dfail ELSE "urls"
            /\ dpc' = "done"
    /\ dsteps' = Append(dsteps, "urls")
    /\ UNCHANGED <<downloads, dt, droute, consulted, dm, dprobe, dreg, dtt, dcache>>
    /\ UNCHANGED <<provVars, facVars>>

\* GetDownloadURLs returns to its caller
DlReturn ==
    /\ dpc = "done"
    /\ dpc' = "idle"
    /\ dt' = ""
    /\ droute' = "none"
    /\ consulted' = {}
    /\ dm' = <<>>
    /\ dprobe' = <<>>
    /\ dreg' = Nil
    /\ dtt' = NoType
    /\ durls' = <<>>
    /\ dres' = <<>>
    /\ derr' = NoErr
    /\ dcache' = EmptyCache
    /\ dsteps' = <<>>
    /\ dfail' = ""
    /\ UNCHANGED downloads
    /\ UNCHANGED <<provVars, facVars>>

NextResolver ==
    \/ DlCall
    \/ DlMatch
    \/ DlProbe
    \/ DlProbed
    \/ DlNewType
    \/ DlUrls
    \/ DlReturn
    \/ LookupURL(1)
    \/ RsCall(1)
    \/ GrpCall(1)
    \/ Insert(1)
    \/ Return(1)

\* one goroutine resolving type strings through the built-in Provider
SpecResolver == Init /\ [][NextResolver]_vars

(* ------------- direct calls and resolutions, one goroutine ------------- *)

\* GetRegistryByName called by goroutine 1 between two resolutions
DirectByName ==
    /\ dpc = "idle"
    /\ calls < MaxDirectCalls
    /\ \E name \in Names : Begin(1, "ByName", name)
    /\ UNCHANGED <<dlVars, facVars>>

\* GetRegistryByShortURL called by goroutine 1 between two resolutions
DirectByShortURL ==
    /\ dpc = "idle"
    /\ calls < MaxDirectCalls
    /\ \E URL \in ProbeURLs : Begin(1, "ByShortURL", URL)
    /\ UNCHANGED <<dlVars, facVars>>

NextBuiltin ==
    \/ DirectByName
    \/ DirectByShortURL
    \/ DlCall
    \/ DlMatch
    \/ DlProbe
    \/ DlProbed
    \/ DlNewType
    \/ DlUrls
    \/ DlReturn
    \/ LookupName(1)
    \/ LookupURL(1)
    \/ RsCall(1)
    \/ GrpCall(1)
    \/ Insert(1)
    \/ Return(1)

\* one goroutine calling the built-in Provider directly and through
\* GetDownloadURLs
SpecBuiltin == Init /\ [][NextBuiltin]_vars

(* ---------------- the resolver with any other Provider ----------------- *)

\* Registries an implementation of the RegistryProvider interface other than
\* the built-in one may hand out
StubRegistries ==
    {[id |-> 1, name |-> "r1", shortURL |-> "github.com/helm/charts", kind |-> "package"]}

\* what such an implementation may answer: (Registry, error) puts no tie
\* between the two results, so a Registry, an error, or neither
StubOutcomes ==
    {[reg |-> g, err |-> NoErr] : g \in StubRegistries}
       \cup {[reg |-> Nil, err |-> "provider failure"], [reg |-> Nil, err |-> NoErr]}

\* GetRegistryByShortURL of that implementation, from entry to its return
\* statement
StubProvider ==
    /\ ~fatal
    /\ pc[1] = "lookup"
    /\ \E out \in StubOutcomes :
          /\ res' = [res EXCEPT ![1] = out.reg]
          /\ err' = [err EXCEPT ![1] = out.err]
    /\ pc' = [pc EXCEPT ![1] = "ret"]
    /\ UNCHANGED <<registries, nextId, calls, fatal, op, arg, cr, r, readers, writers,
                   rsCalls, grpCalls, wrote, alone, pred, last>>
    /\ UNCHANGED <<dlVars, facVars>>

NextStub ==
    \/ DlCall
    \/ DlMatch
    \/ DlProbe
    \/ DlProbed
    \/ DlNewType
    \/ DlUrls
    \/ DlReturn
    \/ StubProvider
    \/ Return(1)

\* one goroutine resolving type strings through any RegistryProvider
SpecStub == Init /\ [][NextStub]_vars

(* ------------------------ claims C1 to C6 ------------------------------ *)

\* goroutine p is about to return from the second of two GetRegistryByName
\* calls for the same name, made in a row with no other call in progress or
\* in between, the first of which succeeded
SecondOfTwoByName(p) ==
    /\ pc[p] = "ret"
    /\ op[p] = "ByName"
    /\ alone[p]
    /\ pred[p].op = "ByName"
    /\ pred[p].alone
    /\ pred[p].arg = arg[p]
    /\ pred[p].err = NoErr

\* C1 as stated: two GetRegistryByName(r) calls in a row, the first
\* successful, issue at most one Get to the Metadata Source between them and
\* return the identical Registry instance, whatever the Metadata Source.
C1_AsStated ==
    \A p \in Procs :
        SecondOfTwoByName(p) =>
            /\ pred[p].rsCalls + rsCalls[p] <= 1
            /\ err[p] = NoErr
            /\ res[p] = pred[p].reg

\* C1 amended: the same, provided the Registry the first call returned reports
\* the name r it was looked up by (the cache is keyed by the reported name).
C1_IdempotentCaching ==
    \A p \in Procs :
        (SecondOfTwoByName(p) /\ pred[p].reg.name = arg[p]) =>
            /\ pred[p].rsCalls + rsCalls[p] <= 1
            /\ err[p] = NoErr
            /\ res[p] = pred[p].reg

\* the second call hit the entry the first call fetched and cached
C1_Witness ==
    \E p \in Procs :
        /\ SecondOfTwoByName(p)
        /\ pred[p].reg.name = arg[p]
        /\ pred[p].rsCalls = 1
        /\ rsCalls[p] = 0
        /\ res[p] = pred[p].reg
        /\ res[p] # Nil

\* the Registry p is about to return answers to the key p looked it up by
AnswersItsKey(p) ==
    IF op[p] = "ByName"
    THEN res[p].name = arg[p]
    ELSE HasPrefix(TrimURLScheme(arg[p]), TrimURLScheme(res[p].shortURL))

\* C2: concurrent calls for the same uncached registry consult the Metadata
\* Source and construct a Registry at most once between them, and all return
\* the same instance.
C2_AtomicAcquireOrCreate ==
    \A p \in Procs, q \in Procs :
        (/\ p # q
         /\ pc[p] = "ret" /\ pc[q] = "ret"
         /\ op[p] = op[q] /\ arg[p] = arg[q]
         /\ err[p] = NoErr /\ err[q] = NoErr
         /\ AnswersItsKey(p) /\ AnswersItsKey(q)
         /\ res[p].name = res[q].name) =>
            /\ rsCalls[p] + rsCalls[q] <= 1
            /\ grpCalls[p] + grpCalls[q] <= 1
            /\ res[p] = res[q]

\* C3: a name once in the cache stays in it, and the instance stored under it
\* is never replaced by another one.
C3_CacheNeverRefreshed ==
    [][\A n \in DOMAIN registries :
          /\ n \in DOMAIN registries'
          /\ registries'[n] = registries[n]]_vars

\* C4: a call that fails returns nil with the error, has not assigned into
\* the cache, has called the Metadata Source exactly once, and has called the
\* Factory only if the Metadata Source succeeded (and then exactly once).
C4_FailureChangesNothing ==
    \A p \in Procs :
        (pc[p] = "ret" /\ err[p] # NoErr) =>
            /\ res[p] = Nil
            /\ ~wrote[p]
            /\ rsCalls[p] = 1
            /\ cr[p] = NilRecord => (err[p] = NotFound /\ grpCalls[p] = 0)
            /\ cr[p] # NilRecord => (err[p] # NotFound /\ grpCalls[p] = 1)

\* a Factory failure is about to be returned while the cache holds an entry
C4_Witness ==
    \E p \in Procs :
        /\ pc[p] = "ret"
        /\ err[p] \notin {NoErr, NotFound}
        /\ grpCalls[p] = 1
        /\ registries # EmptyCache

\* names of the cached entries whose scheme-stripped short URL is a prefix of
\* the scheme-stripped URL
PrefixMatches(URL) ==
    {n \in DOMAIN registries :
        LET short == TrimURLScheme(registries[n].shortURL)
            probe == TrimURLScheme(URL)
        IN  Len(short) <= Len(probe) /\ SubSeq(probe, 1, Len(short)) = short}

\* C5: GetRegistryByShortURL returns one of the prefix-matching cached entries
\* when there is one, without calling the Metadata Source or the Factory and
\* without changing the cache; only when there is none does it call GetByURL,
\* build the Registry, insert it under its own name and return it.
C5_ShortURLHitMiss ==
    /\ [][\A p \in Procs :
            (pc[p] = "lookup" /\ op[p] = "ByShortURL" /\ pc'[p] # "lookup") =>
                IF PrefixMatches(arg[p]) # {}
                THEN /\ pc'[p] = "ret"
                     /\ \E n \in PrefixMatches(arg[p]) : res'[p] = registries[n]
                     /\ rsCalls'[p] = 0 /\ grpCalls'[p] = 0
                     /\ err'[p] = NoErr
                     /\ registries' = registries
                ELSE pc'[p] = "rs"]_vars
    /\ [](\A p \in Procs :
            (pc[p] = "ret" /\ op[p] = "ByShortURL" /\ err[p] = NoErr /\ rsCalls[p] > 0) =>
                /\ rsCalls[p] = 1 /\ grpCalls[p] = 1
                /\ wrote[p]
                /\ res[p] = r[p] /\ res[p] # Nil
                /\ res[p].name \in DOMAIN registries
                /\ registries[res[p].name] = res[p])

\* a hit is about to be returned while two cached entries prefix-match
C5_Witness ==
    \E p \in Procs :
        /\ pc[p] = "ret"
        /\ op[p] = "ByShortURL"
        /\ rsCalls[p] = 0
        /\ Cardinality(PrefixMatches(arg[p])) >= 2
        /\ res[p] # Nil

\* goroutine p is about to return from a GetRegistryByShortURL call that
\* directly follows one for the same URL body under the other scheme, which
\* succeeded and cached a Registry
OtherSchemeFollows(p) ==
    /\ pc[p] = "ret"
    /\ op[p] = "ByShortURL"
    /\ alone[p]
    /\ pred[p].op = "ByShortURL"
    /\ pred[p].alone
    /\ pred[p].arg # arg[p]
    /\ TrimURLScheme(pred[p].arg) = TrimURLScheme(arg[p])
    /\ pred[p].err = NoErr
    /\ pred[p].rsCalls = 1

\* C6 as stated: once GetRegistryByShortURL with one scheme has succeeded and
\* cached a Registry, the following call with the other scheme returns that
\* instance without a further call to the Metadata Source.
C6_AsStated ==
    \A p \in Procs :
        OtherSchemeFollows(p) =>
            /\ rsCalls[p] = 0
            /\ res[p] = pred[p].reg

\* C6 amended: the same, provided the scheme-stripped short URL of the cached
\* Registry is a prefix of the URL body.
C6_SchemeInsensitive ==
    \A p \in Procs :
        (/\ OtherSchemeFollows(p)
         /\ HasPrefix(TrimURLScheme(pred[p].arg), TrimURLScheme(pred[p].reg.shortURL))) =>
            /\ rsCalls[p] = 0
            /\ err[p] = NoErr
            /\ res[p] = pred[p].reg

\* the call with the other scheme hit the entry cached by the call before it
C6_Witness ==
    \E p \in Procs :
        /\ OtherSchemeFollows(p)
        /\ HasPrefix(TrimURLScheme(pred[p].arg), TrimURLScheme(pred[p].reg.shortURL))
        /\ HasPrefix(pred[p].reg.shortURL, "https://")
        /\ rsCalls[p] = 0
        /\ res[p] = pred[p].reg

(* ------------------------ claims C7 to C10 ----------------------------- *)

\* C8: a type string that matches the template short form takes the template
\* path and the package matcher is never evaluated for it, although it also
\* matches the package pattern.
C8_ClassifierExclusivity ==
    (dpc # "idle" /\ IsGithubShortType(dt)) =>
        /\ IsGithubShortPackageType(dt)
        /\ droute = "template"
        /\ "package" \notin consulted
        /\ dm # <<>> => Len(dm) = 6
        /\ dtt.ok => dtt.Version = dm[6]

\* a template short form has been resolved to URLs
C8_Witness ==
    /\ dpc = "done"
    /\ IsGithubShortType(dt)
    /\ droute = "template"
    /\ derr = NoErr
    /\ Len(dres) > 0

\* t matches neither short form and GetDownloadURLs is about to return
UnmatchedDone ==
    /\ dpc = "done"
    /\ ~IsGithubShortType(dt)
    /\ ~IsGithubShortPackageType(dt)

\* t is a URL of the web with nothing in it that parsing or printing
\* rewrites: a lower-case scheme, "://", a letter or digit, and then only
\* letters, digits and the characters - _ . ~ /
PlainWebURL(t) ==
    \E prefix \in {"http://", "https://"} :
       /\ HasPrefix(t, prefix)
       /\ Len(t) > Len(prefix)
       /\ \E c \in {SubSeq(t, Len(prefix) + 1, Len(prefix) + 1)} :
             OneOfChars(c, Letters) \/ OneOfChars(c, Digits)
       /\ \A i \in (Len(prefix) + 1)..Len(t) :
             \/ OneOfChars(SubSeq(t, i, i), Letters)
             \/ OneOfChars(SubSeq(t, i, i), Digits)
             \/ OneOfChars(SubSeq(t, i, i), "-_.~/")

\* C9 as stated: a type string matching neither short form makes no call to
\* the Provider and leaves the cache unchanged; a valid HTTP(S) URL comes
\* back as the one-element list holding exactly that URL, anything else as
\* the empty list with no error.
C9_AsStated ==
    UnmatchedDone =>
        /\ dprobe = <<>>
        /\ registries = dcache
        /\ derr = NoErr
        /\ dres = IF IsHttpUrl(dt) THEN <<dt>> ELSE <<>>

\* C9 amended: a type string matching neither short form makes no call to
\* the Provider and leaves the cache unchanged. A valid HTTP(S) URL comes
\* back as the one-element list holding the URL as url.Parse and String()
\* write it back, which is the URL itself when nothing in it is rewritten
\* and otherwise differs from it (the scheme in lower case, an empty
\* fragment dropped with its "#"); when url.Parse rejects it there is no
\* list and the error "cannot parse download URL" is returned. Anything
\* else gives the empty list and no error.
C9_NoLookupForURLs ==
    UnmatchedDone =>
        /\ dprobe = <<>>
        /\ registries = dcache
        /\ Len(dres) <= 1
        /\ ~IsHttpUrl(dt) => dres = <<>> /\ derr = NoErr
        /\ IsHttpUrl(dt) => (dres = <<>>) # (derr = NoErr)
        /\ derr # NoErr => HasPrefix(derr, "cannot parse download URL " \o dt \o ": parse ")
        /\ PlainWebURL(dt) => dres = <<dt>>
        /\ dt = "https://example.com/blob/file.yaml#" =>
              dres = <<"https://example.com/blob/file.yaml">>
        /\ dt = "HTTP://example.com/a?q=x" => dres = <<"http://example.com/a?q=x">>
        /\ dt = "https://ex%41mple.com/blob/file.yaml" =>
              derr = "cannot parse download URL https://ex%41mple.com/blob/file.yaml: "
                        \o "parse \"https://ex%41mple.com/blob/file.yaml\": "
                        \o "invalid URL escape \"%41\""
        /\ dt \in {"https://example.com/blob/my file.yaml",
                   "https://github.com/helm\n/charts/cassandra", "string"} =>
              dres = <<>> /\ derr = NoErr

\* a full URL comes back rewritten while the cache holds an entry
C9_Witness ==
    /\ UnmatchedDone
    /\ IsHttpUrl(dt)
    /\ derr = NoErr
    /\ Len(dres) = 1
    /\ dres # <<dt>>
    /\ registries # EmptyCache

\* C10: a short form is resolved by probing GetRegistryByShortURL with the
\* whole string, building the Type from the 3rd, 4th and 5th components
\* (template) or from the 3rd alone (package), and returning the URLs the
\* Registry reports for that Type.
C10_ShortFormResolution ==
    (dpc = "done" /\ droute \in {"template", "package"} /\ derr = NoErr) =>
        /\ dprobe = <<dt>>
        /\ dreg # Nil
        /\ dreg = last.reg
        /\ last.op = "ByShortURL" /\ last.arg = dt
        /\ droute = "template" =>
              /\ Len(dm) = 6
              /\ dtt = [Collection |-> dm[4], Name |-> dm[5], Version |-> dm[6], ok |-> TRUE]
        /\ droute = "package" =>
              /\ Len(dm) = 4
              /\ dtt = [Collection |-> "", Name |-> dm[4], Version |-> "", ok |-> TRUE]
        /\ dt = "github.com/kubernetes/application-dm-templates/storage/redis:v1" =>
              dtt = [Collection |-> "storage", Name |-> "redis", Version |-> "v1", ok |-> TRUE]
        /\ dt = "github.com/helm/charts/cassandra" =>
              dtt = [Collection |-> "", Name |-> "cassandra", Version |-> "", ok |-> TRUE]
        /\ dt = "github.com/helm/charts/stable/redis:v1\nbeta" =>
              dtt = [Collection |-> "stable", Name |-> "redis", Version |-> "v1", ok |-> TRUE]
        /\ [urls |-> durls, err |-> NoErr] \in DownloadOutcomes(dreg, dtt)
        /\ Len(dres) = Len(durls)
        /\ \A i \in 1..Len(durls) :
              dres[i] = "https://" \o TrimURLScheme(dreg.shortURL) \o "/" \o dtt.Name
                            \o (IF i = 1 THEN ".yaml" ELSE "%20v2.yaml")

\* the template example of the specification resolved to two URLs
C10_Witness ==
    /\ dpc = "done"
    /\ derr = NoErr
    /\ dt = "github.com/kubernetes/application-dm-templates/storage/redis:v1"
    /\ droute = "template"
    /\ Len(dres) = 2
    /\ dtt.Name = "redis"

(* ------------------------ claims C11 to C19 ---------------------------- *)

\* the steps of a short-form resolution, in the order of the code
StepOrder == <<"match", "probe", "newtype", "urls">>

\* the error each failing step hands back
ErrorOf(step) ==
    CASE step = "match" -> ParseFailure(droute) \o dt
      [] step = "probe" -> last.err
      [] step = "newtype" -> "invalid type"
      [] OTHER -> "download failed"

\* C11: resolver errors are returned, never swallowed or retried. The steps a
\* short-form resolution has executed are always an initial part of match,
\* Provider lookup, NewType, GetDownloadURLs, each at most once; once a step
\* has met an error, that step is the last one executed, the resolution is
\* over, and it returns that very error with no URL list.
C11_ErrorsReturned ==
    /\ dsteps = SubSeq(StepOrder, 1, Len(dsteps))
    /\ dfail # "" =>
          /\ droute \in {"template", "package"}
          /\ dsteps # <<>>
          /\ dsteps[Len(dsteps)] = dfail
          /\ dpc = "done"
          /\ derr # NoErr
          /\ derr = ErrorOf(dfail)
          /\ dres = <<>>
          /\ durls = <<>>

\* NewType has rejected the components after a successful Provider lookup
C11_Witness ==
    /\ dpc = "done"
    /\ dfail = "newtype"
    /\ dsteps = <<"match", "probe", "newtype">>
    /\ dreg # Nil
    /\ derr = "invalid type"

\* goroutine p holds the read side of its lock once, and not the write side
HoldsReadSideOnly(p) == readers[p] = 1 /\ writers[p] = 0

\* goroutine p is in the part of a miss that follows the lookup
Missed(p) == pc[p] \in {"rs", "grp", "insert"} \/ (pc[p] = "ret" /\ rsCalls[p] > 0)

\* C12: insertion without exclusive protection. A Provider call holds the
\* read side of its lock, and only that, from entry to return, the insertion
\* of a miss included; nothing makes a call wait at the map: a call that has
\* reached the insertion can perform it and a call that has reached the
\* lookup can perform it, whatever the other calls are doing.
C12_InsertionUnprotected ==
    \A p \in Procs :
       /\ pc[p] # "idle" => HoldsReadSideOnly(p)
       /\ (pc[p] = "insert" /\ ~fatal) => ENABLED Insert(p)
       /\ (pc[p] = "lookup" /\ ~fatal) => ENABLED (LookupName(p) \/ LookupURL(p))

\* two calls that both missed are at the map insertion at the same time
C12_Witness ==
    /\ ~fatal
    /\ \A p \in Procs : pc[p] = "insert" /\ Missed(p) /\ HoldsReadSideOnly(p)

\* a call reads the map while another is at the insertion
C12_ReaderMeetsWriter ==
    /\ ~fatal
    /\ \E p \in Procs, q \in Procs :
          /\ pc[p] = "insert" /\ HoldsReadSideOnly(p)
          /\ pc[q] = "lookup" /\ HoldsReadSideOnly(q)

\* goroutine p holds its read lock and waits for the Metadata Source or the
\* Factory to answer
BlockedInMiss(p) == pc[p] \in {"rs", "grp"} /\ readers[p] > 0

\* C13 as stated: while a call holds the read lock and waits in the Metadata
\* Source or Factory call of a miss, no other call inserts into the cache.
C13_AsStated ==
    [][\A p \in Procs, q \in Procs :
          (p # q /\ BlockedInMiss(p) /\ pc[q] = "insert") => pc'[q] = "insert"]_vars

\* C13: a slow miss stalls nothing. While a call holds its read lock and
\* waits in the Metadata Source or Factory call of a miss, another goroutine
\* can enter a Provider call, and a call that has reached the insertion can
\* perform it.
C13_SlowMissStallsNothing ==
    \A p \in Procs, q \in Procs :
       (p # q /\ BlockedInMiss(p) /\ ~fatal) =>
          /\ (pc[q] = "idle" /\ calls < MaxCalls) =>
                ENABLED CallByName(q) /\ ENABLED CallByShortURL(q)
          /\ pc[q] = "insert" => ENABLED Insert(q)

\* a call is at the insertion while the other waits for the Metadata Source
\* with its read lock held
C13_Witness ==
    /\ ~fatal
    /\ BlockedInMiss(1)
    /\ pc[1] = "rs"
    /\ pc[2] = "insert"
    /\ r[2] # Nil

\* the Provider has answered the lookup of the current resolution with
\* neither a Registry nor an error
GotNothing ==
    /\ dpc \in {"newtype", "urls", "done", "panic"}
    /\ Len(dsteps) >= 2
    /\ last.reg = Nil
    /\ last.err = NoErr

\* C14: abort on contradiction. Once the Provider has answered the lookup of
\* a short-form resolution with a nil Registry and no error, the resolution
\* is in the abort state: NewType is not called, GetDownloadURLs is not
\* invoked on the nil Registry, and neither a URL list nor an error is
\* returned.
C14_AbortOnContradiction ==
    GotNothing =>
       /\ dpc = "panic"
       /\ dsteps = <<"match", "probe">>
       /\ dtt = NoType
       /\ derr = NoErr
       /\ dres = <<>>

\* the tags of a sequence of tags, as a set
TagsOf(tags) == {tags[i] : i \in 1..Len(tags)}

\* GetGithubRegistry on the record at hand with its format replaced by the
\* given tags joined with ";"
WithFormat(tags) == GetGithubRegistry([fcr EXCEPT !.Format = JoinSemi(tags)], nextId)

\* C15: format strings are sets. For the format at hand and any other format
\* made of the same tags, in another order or with repeats,
\* ParseRegistryFormat yields the same tag set and GetGithubRegistry gives
\* the same outcome: the same Registry, or a failure in both cases.
C15_FormatIsASet ==
    fout.done =>
       \A other \in TagSeqs :
          TagsOf(other) = TagSet =>
             /\ ParseRegistryFormat(JoinSemi(other)) = ParseRegistryFormat(fcr.Format)
             /\ ParseRegistryFormat(fcr.Format) = TagSet
             /\ WithFormat(other).reg = fout.reg
             /\ (WithFormat(other).err = NoErr) <=> (fout.err = NoErr)

\* a package registry from a format with the tags in the other order and one
\* of them repeated
C15_Witness ==
    /\ fout.done
    /\ ftags = <<OneLevelRegistry, UnversionedRegistry, OneLevelRegistry>>
    /\ fcr.Type = GithubRegistryType
    /\ fout.err = NoErr
    /\ fout.reg.kind = "package"
    /\ fout.reg = WithFormat(<<UnversionedRegistry, OneLevelRegistry>>).reg

\* goroutine p assigns into the cache in this step
Inserts(p) == pc[p] = "insert" /\ pc'[p] = "ret"

\* C16: cache key invariant. Every entry of the cache is stored under the
\* name its Registry reports; an insertion adds or replaces the entry of the
\* new Registry's own name and touches no other key, so a GetRegistryByName(n)
\* whose record reports another name does not put n into the cache.
C16_CacheKeyInvariant ==
    /\ [](\A k \in DOMAIN registries : registries[k].name = k)
    /\ [][\A p \in Procs :
             Inserts(p) =>
                /\ DOMAIN registries' = (DOMAIN registries) \cup {r[p].name}
                /\ registries'[r[p].name] = r[p]
                /\ \A k \in (DOMAIN registries) \ {r[p].name} : registries'[k] = registries[k]
                /\ (op[p] = "ByName" /\ r[p].name # arg[p]) =>
                      (arg[p] \in DOMAIN registries' <=> arg[p] \in DOMAIN registries)]_vars

\* GetRegistryByName(n) has inserted a Registry that reports another name,
\* and n is not a key of the cache
C16_Witness ==
    \E p \in Procs :
       /\ pc[p] = "ret"
       /\ op[p] = "ByName"
       /\ wrote[p]
       /\ res[p].name # arg[p]
       /\ arg[p] \notin DOMAIN registries
       /\ res[p].name \in DOMAIN registries

\* t holds "github.com/" somewhere, followed by at least three parts
\* separated by slashes
HoldsGithubPath(t) ==
    \E i \in 1..(Len(t) - 10) :
       /\ SubSeq(t, i, i + 10) = "github.com/"
       /\ Cardinality(Positions(Drop(t, i + 10), "/")) >= 2

\* t holds "github.com/" somewhere, followed on the same line by at least
\* three parts separated by slashes
HoldsGithubPathOnLine(t) ==
    \E i \in 1..(Len(t) - 10) :
       LET rest == Drop(t, i + 10)
           nl == IndexOf(rest, "\n")
           line == IF nl = 0 THEN rest ELSE SubSeq(rest, 1, nl - 1)
       IN  /\ SubSeq(t, i, i + 10) = "github.com/"
           /\ Cardinality(Positions(line, "/")) >= 2

\* the type string is classified as a short form without the URL test being
\* evaluated, it is handed to GetRegistryByShortURL whole, and what is
\* returned is never the type string itself as a one-element list
ShortFormWon ==
    /\ droute \in {"template", "package"}
    /\ "http" \notin consulted
    /\ dpc \in {"wait", "newtype", "urls", "done", "panic"} => dprobe = <<dt>>
    /\ (dpc = "done" /\ derr = NoErr) =>
          /\ dprobe = <<dt>>
          /\ dres = ConvertURLsToStrings(durls)
          /\ dres # <<dt>>
          /\ dres # <<URLString(ParseURL(dt))>>

\* C17 as stated: the short form wins over the URL form for every type string
\* that holds "github.com/" followed by at least three slash-separated parts
\* anywhere in it, a full http(s) URL included.
C17_AsStated == (dpc # "idle" /\ HoldsGithubPath(dt)) => ShortFormWon

\* C17 amended: the short form wins over the URL form for every type string
\* that holds "github.com/" followed, before the next line break, by at least
\* three slash-separated parts, a full http(s) URL included: the '.' of the
\* patterns matches no line break, so a match lies within one line.
C17_ShortFormWins == (dpc # "idle" /\ HoldsGithubPathOnLine(dt)) => ShortFormWon

\* a full https URL into a github repository has been resolved through the
\* Provider as a package short form
C17_Witness ==
    /\ dpc = "done"
    /\ derr = NoErr
    /\ dt = "https://github.com/helm/charts/cassandra"
    /\ IsHttpUrl(dt)
    /\ droute = "package"
    /\ dprobe = <<dt>>
    /\ Len(dres) = 1

\* exactly one of a Registry and an error
OneOf(reg, e) == (reg # Nil /\ e = NoErr) \/ (reg = Nil /\ e # NoErr)

\* C18: the result of the built-in Provider is exactly one of Registry or
\* error. Every GetRegistryByName and GetRegistryByShortURL call returns
\* either a Registry and no error or no Registry and an error; a miss that
\* succeeds has gone through the insertion, and the insertion stores the very
\* Registry the call returns; a resolution through the built-in Provider
\* never reaches the abort state.
C18_RegistryOrError ==
    /\ [](pc[1] = "ret" =>
             /\ OneOf(res[1], err[1])
             /\ (rsCalls[1] > 0 /\ err[1] = NoErr) => wrote[1])
    /\ [](last.op # "none" => OneOf(last.reg, last.err))
    /\ [][Inserts(1) =>
             /\ res'[1] = r[1]
             /\ OneOf(res'[1], err'[1])
             /\ res'[1].name \in DOMAIN registries'
             /\ registries'[res'[1].name] = res'[1]]_vars
    /\ [](dpc # "panic" /\ ~GotNothing)

\* a resolution has gone past the Provider lookup with a Registry that the
\* miss of that lookup has put into the cache
C18_Witness ==
    /\ dpc = "newtype"
    /\ last.op = "ByShortURL"
    /\ last.rsCalls = 1
    /\ OneOf(last.reg, last.err)
    /\ dreg = last.reg
    /\ dreg.name \in DOMAIN registries
    /\ registries[dreg.name] = dreg
    /\ dreg.name \notin DOMAIN dcache

\* a step of the Provider's own code in the call goroutine p is in: the
\* lookup, the insertion, the return (the calls to the Metadata Source and to
\* the Factory are the callees' steps)
OwnStep(p) ==
    \/ LookupName(p)
    \/ LookupURL(p)
    \/ Insert(p)
    \/ Return(p)

\* C19: the lock is always released and never blocks. A goroutine that is in
\* no call holds nothing of its lock, one that is in a call holds its read
\* hold; as long as the process runs, a goroutine can enter a call whatever
\* the others hold, and a call that is not waiting for the Metadata Source or
\* the Factory can always take its next step; a call asks the Metadata Source
\* and the Factory at most once each and only in that order, so, these two
\* returning, it is never more than five steps from its return.
C19_LockReleasedNeverBlocks ==
    /\ \A p \in Procs :
          /\ pc[p] = "idle" => (readers[p] = 0 /\ writers[p] = 0)
          /\ pc[p] # "idle" => readers[p] = 1
          /\ pc[p] \in {"idle", "lookup", "rs"} => (rsCalls[p] = 0 /\ grpCalls[p] = 0)
          /\ pc[p] = "grp" => (rsCalls[p] = 1 /\ grpCalls[p] = 0)
          /\ pc[p] = "insert" => (rsCalls[p] = 1 /\ grpCalls[p] = 1)
          /\ pc[p] = "ret" => (rsCalls[p] \in {0, 1} /\ grpCalls[p] \in {0, rsCalls[p]})
    /\ ~fatal =>
          \A p \in Procs :
             /\ (pc[p] = "idle" /\ calls < MaxCalls) =>
                   (ENABLED CallByName(p) /\ ENABLED CallByShortURL(p))
             /\ pc[p] \in {"lookup", "insert", "ret"} => ENABLED OwnStep(p)

\* both goroutines are back from their calls, one of which failed and one
\* of which inserted, and no lock is held
C19_Witness ==
    /\ ~fatal
    /\ calls = MaxCalls
    /\ \A p \in Procs : pc[p] = "idle" /\ readers[p] = 0
    /\ last.err # NoErr
    /\ registries # EmptyCache

====
